---- MODULE Spec2Model ----
(***************************************************************************)
(* Monthly snapshot store of the personal-finance assistant.               *)
(*                                                                         *)
(* The four tables of src/database/models.py (accounts,                    *)
(* monthly_account_snapshots, transactions, categories) are the state.     *)
(* SnapshotService (src/business_logic/snapshot_service.py) writes them,   *)
(* SnapshotService, AggregationService and FinanceMCPDatabase read them.   *)
(*                                                                         *)
(* Money is modelled in whole currency units, a date is the triple         *)
(* <<year, month, day>>.                                                   *)
(*                                                                         *)
(* Four specifications:                                                    *)
(*   Spec     every service call runs to completion, each on a session     *)
(*            that is usable (as get_db hands one to every request)        *)
(*   SpecRace two sessions, create_snapshot / update_snapshot split into   *)
(*            their query, INSERT/UPDATE (flush) and COMMIT steps; a       *)
(*            session whose flush failed stays inactive until it is closed; *)
(*            on the SQLite fallback the sessions of a thread share one    *)
(*            connection and their calls run one after another             *)
(*   SpecApi  lookups, listings, aggregates and FinanceMCPDatabase calls   *)
(*            over a store populated through SnapshotService               *)
(*   SpecMcp  the instance get_mcp_server() hands out, in memory or        *)
(*            database-backed, and the statement upload                    *)
(***************************************************************************)
EXTENDS Integers, FiniteSets, Sequences, TLC

\* ------------------------------------------------------------------------
\* Bounds
\* ------------------------------------------------------------------------
MaxSnapshots == 2
MaxTransactions == 1
MaxAttempts == 2
MaxStored == 3
MaxId == 5
MaxAdded == 1

\* ------------------------------------------------------------------------
\* Input domains
\* ------------------------------------------------------------------------
\* Python's None / SQL NULL is the empty tuple, a present value v is <<v>>
None == <<>>

Some(v) == <<v>>

Value(o) == o[1]

\* account ids a caller may pass; an id refers to no account until
\* create_account has handed it out
AccountIds == {1, 2}

\* December 2025 and January 2026 are the demo script's periods; month 101
\* is a month no caller should pass
Periods == {<<2025, 12>>, <<2026, 1>>, <<2025, 101>>}

\* the balances of the demo script's checking account (December, January)
SnapshotValues ==
  { [starting_balance |-> 2000, ending_balance |-> 2500,
     total_income |-> 3000, total_expense |-> 2500],
    [starting_balance |-> 2500, ending_balance |-> 3200,
     total_income |-> 3500, total_expense |-> 2800] }

SnapshotArgs ==
  { [account_id |-> a, year |-> p[1], month |-> p[2],
     starting_balance |-> v.starting_balance,
     ending_balance |-> v.ending_balance,
     total_income |-> v.total_income,
     total_expense |-> v.total_expense] :
       a \in AccountIds, p \in Periods, v \in SnapshotValues }

\* a partial update: None leaves the field alone
UpdateValues ==
  { [starting_balance |-> None, ending_balance |-> Some(0),
     total_income |-> Some(3500), total_expense |-> None] }

\* the updates are made to the checking account's January 2026 snapshot
UpdateArgs ==
  { [account_id |-> 1, year |-> 2026, month |-> 1,
     starting_balance |-> v.starting_balance,
     ending_balance |-> v.ending_balance,
     total_income |-> v.total_income,
     total_expense |-> v.total_expense] :
       v \in UpdateValues }

\* a salary transaction, passed with the parameters add_transaction has
TransactionArgs ==
  { [account_id |-> 1, date |-> <<2026, 1, 10>>, amount |-> 3500,
     category |-> "Salary", description |-> "Monthly salary"] }

\* the three add_transaction calls of the demo script, two for the checking
\* account and one for the credit card, the third account the script
\* creates: each passes currency="USD" as well, a keyword add_transaction
\* does not have; the amount 45.50 is rounded to whole units
DemoTransactionArgs ==
  { [account_id |-> 1, date |-> <<2026, 1, 5>>, amount |-> -46,
     category |-> "Food & Dining", description |-> "Grocery shopping",
     currency |-> "USD"],
    [account_id |-> 1, date |-> <<2026, 1, 10>>, amount |-> 3500,
     category |-> "Salary", description |-> "Monthly salary",
     currency |-> "USD"],
    [account_id |-> 3, date |-> <<2026, 1, 8>>, amount |-> -120,
     category |-> "Transportation", description |-> "Gas for car",
     currency |-> "USD"] }

\* the parameters of SnapshotService.add_transaction
AddTransactionParameters ==
  {"account_id", "date", "amount", "category", "description", "category_id"}

\* the calls the two racing sessions make: the demo's checking account,
\* December 2025 and January 2026
RaceSnapshotArgs ==
  { a \in SnapshotArgs : a.account_id = 1 /\ a.month \in 1..12 }

Sessions == {"s1", "s2"}

\* ------------------------------------------------------------------------
\* State
\* ------------------------------------------------------------------------
VARIABLES
  backend,       \* "postgresql" or the "sqlite" fallback of init_database
  tables,        \* whether the engine's database holds the tables of create_all
  accounts,      \* ids of the committed rows of table accounts
  snapshots,     \* committed rows of table monthly_account_snapshots
  transactions,  \* committed rows of table transactions
  categories,    \* committed rows of table categories
  snapshot_seq,  \* PostgreSQL: last value taken from the id sequence of the snapshots
  transaction_seq, \* PostgreSQL: last value taken from the id sequence of the transactions
  last,          \* Spec: outcome of the last finished call
  mcp_server,    \* the instance get_mcp_server() hands out
  USE_DATABASE,  \* the flag of workflow/mcp_instance.py, read from the environment
  response,      \* what the last call on mcp_server or the upload endpoint answered
  pc,            \* SpecRace: position of each session inside its call
  call,          \* SpecRace: arguments / loaded row of the running call
  pending,       \* SpecRace: row INSERTed by a session, not yet committed
  result,        \* SpecRace: outcome of each session's last finished call
  attempts,      \* SpecRace: per key, calls started and their outcomes
  connection     \* SpecRace, SQLite fallback: the database each session's connection is open on

store == <<backend, tables, accounts, snapshots, transactions, categories, snapshot_seq,
          transaction_seq>>
race == <<pc, call, pending, result, attempts, connection>>
vars == <<backend, tables, accounts, snapshots, transactions, categories, snapshot_seq,
          transaction_seq, last, mcp_server, USE_DATABASE, response, pc, call, pending, result, attempts,
          connection>>

Key(r) == <<r.account_id, r.year, r.month>>

Keys == { Key(a) : a \in SnapshotArgs }

NoResult == [op |-> "init", key |-> <<0, 0, 0>>, outcome |-> "ok", cause |-> "none"]

NoAttempts == [started |-> 0, ok |-> 0, duplicate |-> 0, foreign_key |-> 0]

NoResponse == [call |-> "none", args |-> None, outcome |-> "ok", returned |-> None]

\* a FinanceMCPDatabase instance: it keeps no transactions of its own
FinanceMCPDatabase ==
  [class |-> "FinanceMCPDatabase", transactions |-> <<>>, next_id |-> 0]

Init ==
  /\ backend \in {"postgresql", "sqlite"}
  /\ tables = TRUE
  /\ accounts = {}
  /\ snapshots = {}
  /\ transactions = {}
  /\ categories = {}
  /\ snapshot_seq = 0
  /\ transaction_seq = 0
  /\ last = "init"
  /\ mcp_server = FinanceMCPDatabase
  /\ USE_DATABASE = TRUE
  /\ response = NoResponse
  /\ pc = [s \in Sessions |-> "idle"]
  /\ call = [s \in Sessions |-> None]
  /\ pending = [s \in Sessions |-> None]
  /\ result = [s \in Sessions |-> NoResult]
  /\ attempts = [k \in Keys |-> NoAttempts]
  /\ connection = [s \in Sessions |-> "none"]

\* ------------------------------------------------------------------------
\* Storage layer: constraints of the tables
\* ------------------------------------------------------------------------
MonthlyAccountSnapshot(a, id) ==
  [id |-> id, account_id |-> a.account_id, year |-> a.year, month |-> a.month,
   starting_balance |-> a.starting_balance,
   ending_balance |-> a.ending_balance,
   total_income |-> a.total_income,
   total_expense |-> a.total_expense]

\* the table without its unique constraint
UniqueViolation_dropped(row) ==
  FALSE

\* uix_account_year_month: a committed row with the same key exists
UniqueViolation(row) ==
  \E r \in snapshots : Key(r) = Key(row)

\* a uniqueness check that only looks at committed rows
IndexWait_committed_only(s, row) ==
  FALSE

\* the unique index of PostgreSQL makes an INSERT wait while another session
\* holds an uncommitted row with the same key; the sessions of the SQLite
\* fallback share the connection of their thread and never wait
IndexWait(s, row) ==
  /\ backend = "postgresql"
  /\ \E t \in Sessions \ {s} : pending[t] # None /\ Key(Value(pending[t])) = Key(row)

\* ForeignKey("accounts.id"): enforced by PostgreSQL; the SQLite fallback
\* engine is created without PRAGMA foreign_keys and does not enforce it
ForeignKeyViolation(account_id) ==
  backend = "postgresql" /\ account_id \notin accounts

Max(S) == CHOOSE x \in S : \A y \in S : y <= x

\* id = Column(Integer, primary_key=True, autoincrement=True): the id an
\* INSERT into a table with these rows gets. PostgreSQL takes the next value
\* of the column's sequence; SQLite, whose column is the rowid, takes the
\* largest id in the table plus one, so the id of a deleted last row is
\* handed out again
NextId(rows, seq) ==
  IF backend = "postgresql" THEN seq + 1
  ELSE Max({ r.id : r \in rows } \cup {0}) + 1

\* the sequence after an INSERT, accepted or refused: PostgreSQL never gives
\* a value back, SQLite has no sequence
Taken(seq) ==
  IF backend = "postgresql" THEN seq + 1 ELSE seq

\* why the INSERT of a snapshot row is refused, or that it is accepted
InsertRefusal(row) ==
  IF UniqueViolation(row) THEN "duplicate"
  ELSE IF ForeignKeyViolation(row.account_id) THEN "foreign_key"
  ELSE "accepted"

\* ------------------------------------------------------------------------
\* SnapshotService: account and snapshot management, one call at a time
\* ------------------------------------------------------------------------
\* SnapshotService.create_account; without the tables its INSERT raises
\* OperationalError (no such table)
create_account ==
  /\ IF tables
     THEN /\ Cardinality(accounts) < Cardinality(AccountIds)
          /\ accounts' = accounts \cup {Cardinality(accounts) + 1}
          /\ last' = "ok"
     ELSE /\ last' = "OperationalError"
          /\ UNCHANGED accounts
  /\ UNCHANGED <<backend, tables, categories, snapshots, transactions, snapshot_seq, transaction_seq>>
  /\ UNCHANGED <<race, mcp_server, USE_DATABASE, response>>

\* create_snapshot without its existence check
existing_unchecked(account_id, year, month) ==
  None

\* the row the three-column filter followed by .first() returns
existing(account_id, year, month) ==
  LET found == { r \in snapshots : /\ r.account_id = account_id
                                   /\ r.year = year
                                   /\ r.month = month }
  IN IF found = {} THEN None ELSE Some(CHOOSE r \in found : TRUE)

create_snapshot(a) ==
  LET row == MonthlyAccountSnapshot(a, NextId(snapshots, snapshot_seq))
  IN
  /\ UNCHANGED <<backend, tables, categories, accounts, transactions, transaction_seq>>
  /\ UNCHANGED <<race, mcp_server, USE_DATABASE, response>>
  /\ IF existing(a.account_id, a.year, a.month) # None
     THEN /\ last' = "ValueError"
          /\ UNCHANGED <<snapshots, snapshot_seq>>
     ELSE /\ row.id <= MaxSnapshots
          /\ snapshot_seq' = Taken(snapshot_seq)
          /\ IF InsertRefusal(row) # "accepted"
             THEN /\ last' = "IntegrityError"
                  /\ UNCHANGED snapshots
             ELSE /\ snapshots' = snapshots \cup {row}
                  /\ last' = "ok"

\* the same assignments guarded by truthiness ("if ending_balance:"), which
\* skips a supplied 0
Assigned_if_truthy(row, a) ==
  [row EXCEPT
     !.starting_balance = IF a.starting_balance # None /\ Value(a.starting_balance) # 0
                          THEN Value(a.starting_balance) ELSE @,
     !.ending_balance = IF a.ending_balance # None /\ Value(a.ending_balance) # 0
                        THEN Value(a.ending_balance) ELSE @,
     !.total_income = IF a.total_income # None /\ Value(a.total_income) # 0
                      THEN Value(a.total_income) ELSE @,
     !.total_expense = IF a.total_expense # None /\ Value(a.total_expense) # 0
                       THEN Value(a.total_expense) ELSE @]

\* the loaded row with the supplied (not None) fields assigned
Assigned(row, a) ==
  [row EXCEPT
     !.starting_balance = IF a.starting_balance # None
                          THEN Value(a.starting_balance) ELSE @,
     !.ending_balance = IF a.ending_balance # None
                        THEN Value(a.ending_balance) ELSE @,
     !.total_income = IF a.total_income # None
                      THEN Value(a.total_income) ELSE @,
     !.total_expense = IF a.total_expense # None
                       THEN Value(a.total_expense) ELSE @]

\* an update that inserts the row it does not find (an upsert)
update_snapshot_or_create(a) ==
  LET found == existing(a.account_id, a.year, a.month)
      snapshot == Value(found)
      blank == [id |-> NextId(snapshots, snapshot_seq), account_id |-> a.account_id,
                year |-> a.year, month |-> a.month, starting_balance |-> 0,
                ending_balance |-> 0, total_income |-> 0, total_expense |-> 0]
  IN
  /\ UNCHANGED <<backend, tables, categories, accounts, transactions, transaction_seq>>
  /\ UNCHANGED <<race, mcp_server, USE_DATABASE, response>>
  /\ last' = "ok"
  /\ IF found = None
     THEN /\ blank.id <= MaxSnapshots
          /\ snapshots' = snapshots \cup {Assigned(blank, a)}
          /\ snapshot_seq' = Taken(snapshot_seq)
     ELSE /\ snapshots' = (snapshots \ {snapshot}) \cup {Assigned(snapshot, a)}
          /\ UNCHANGED snapshot_seq

update_snapshot(a) ==
  LET found == existing(a.account_id, a.year, a.month)
      snapshot == Value(found)
  IN
  /\ UNCHANGED <<backend, tables, categories, accounts, transactions, snapshot_seq, transaction_seq>>
  /\ UNCHANGED <<race, mcp_server, USE_DATABASE, response>>
  /\ IF found = None
     THEN /\ last' = "None"
          /\ UNCHANGED snapshots
     ELSE /\ snapshots' = (snapshots \ {snapshot}) \cup {Assigned(snapshot, a)}
          /\ last' = "ok"

\* SnapshotService.get_snapshot: the row as a dict, or None; nothing is written
get_snapshot(account_id, year, month) ==
  /\ last' = IF existing(account_id, year, month) = None THEN "None" ELSE "ok"
  /\ UNCHANGED store
  /\ UNCHANGED <<race, mcp_server, USE_DATABASE, response>>

\* SnapshotService.get_account: the account as a dict, or None
get_account(account_id) ==
  /\ last' = IF account_id \in accounts THEN "ok" ELSE "None"
  /\ UNCHANGED store
  /\ UNCHANGED <<race, mcp_server, USE_DATABASE, response>>

\* ------------------------------------------------------------------------
\* Transaction log
\* ------------------------------------------------------------------------
Transaction(a, id) ==
  [id |-> id, account_id |-> a.account_id, date |-> a.date,
   amount |-> a.amount, category |-> a.category,
   description |-> a.description]

\* SnapshotService.add_transaction(**a): a keyword that is not one of its
\* parameters raises TypeError before the body runs; an INSERT the foreign
\* key refuses has taken its id from the sequence all the same
add_transaction(a) ==
  /\ UNCHANGED <<backend, tables, categories, accounts, snapshots, snapshot_seq>>
  /\ UNCHANGED <<race, mcp_server, USE_DATABASE, response>>
  /\ IF DOMAIN a \ AddTransactionParameters # {}
     THEN /\ last' = "TypeError"
          /\ UNCHANGED <<transactions, transaction_seq>>
     ELSE /\ NextId(transactions, transaction_seq) <= MaxTransactions
          /\ transaction_seq' = Taken(transaction_seq)
          /\ IF ForeignKeyViolation(a.account_id)
             THEN /\ last' = "IntegrityError"
                  /\ UNCHANGED transactions
             ELSE /\ transactions' = transactions \cup
                                       {Transaction(a, NextId(transactions, transaction_seq))}
                  /\ last' = "ok"

\* FinanceMCPDatabase.delete_transaction
delete_transaction(transaction_id) ==
  LET found == { t \in transactions : t.id = transaction_id }
  IN
  /\ UNCHANGED <<backend, tables, categories, accounts, snapshots, snapshot_seq, transaction_seq>>
  /\ UNCHANGED <<race, mcp_server, USE_DATABASE, response>>
  /\ IF found # {}
     THEN /\ transactions' = transactions \ found
          /\ last' = "True"
     ELSE /\ UNCHANGED transactions
          /\ last' = "False"

\* ------------------------------------------------------------------------
\* Queries: SQL aggregates and their Python post-processing
\* ------------------------------------------------------------------------
RECURSIVE Sum(_, _)
\* the sum of field f over the rows of S
Sum(S, f) ==
  IF S = {} THEN 0
  ELSE LET r == CHOOSE x \in S : TRUE IN r[f] + Sum(S \ {r}, f)

\* func.sum(...).scalar(): NULL over no rows
SqlSum(S, f) ==
  IF S = {} THEN None ELSE Some(Sum(S, f))

\* Python's "result or 0.0": None and 0 are both falsy
OrZero(x) ==
  IF x = None \/ Value(x) = 0 THEN 0 ELSE Value(x)

\* Python's "result if result is not None else 0.0"
IfNotNoneElseZero(x) ==
  IF x = None THEN 0 ELSE Value(x)

\* a filter that forgets the year
ForMonth_any_year(year, month) ==
  { r \in snapshots : r.month = month }

\* the rows the filter and_(year == year, month == month) keeps
ForMonth(year, month) ==
  { r \in snapshots : r.year = year /\ r.month = month }

get_total_balance_for_month(year, month) ==
  OrZero(SqlSum(ForMonth(year, month), "ending_balance"))

\* an expense total that leaves the credit card's snapshots out
get_total_expenses_for_month_of_first_account(year, month) ==
  OrZero(SqlSum({ r \in ForMonth(year, month) : r.account_id = 1 }, "total_expense"))

get_total_expenses_for_month(year, month) ==
  OrZero(SqlSum(ForMonth(year, month), "total_expense"))

get_total_income_for_month(year, month) ==
  OrZero(SqlSum(ForMonth(year, month), "total_income"))

\* the expression year * 100 + month of the subquery and of the join
max_period_key(r) == r.year * 100 + r.month

\* a current total that adds up every snapshot, not the latest per account
get_current_total_balance_of_all ==
  OrZero(SqlSum(snapshots, "ending_balance"))

get_current_total_balance ==
  LET subquery ==
        { [account_id |-> a,
           max_period |-> Max({ max_period_key(r) :
                                  r \in { x \in snapshots : x.account_id = a } })] :
            a \in { r.account_id : r \in snapshots } }
      joined ==
        { r \in snapshots :
            \E q \in subquery : /\ r.account_id = q.account_id
                                /\ max_period_key(r) = q.max_period }
  IN OrZero(SqlSum(joined, "ending_balance"))

\* ORDER BY year DESC, month DESC: rows of one period come in any order
OrderedByPeriodDesc(q) ==
  \A i \in 1..(Len(q) - 1) :
     \/ q[i].year > q[i + 1].year
     \/ q[i].year = q[i + 1].year /\ q[i].month >= q[i + 1].month

\* every listing of the rows of S the ORDER BY allows
Listings(S) ==
  { q \in [1..Cardinality(S) -> S] :
      /\ \A i, j \in 1..Cardinality(S) : i # j => q[i] # q[j]
      /\ OrderedByPeriodDesc(q) }

\* a range listing that tests the year and the month of a bound separately
list_snapshots_for_account_by_column(account_id, start_year, start_month, end_year, end_month) ==
  LET of_account == { r \in snapshots : r.account_id = account_id }
      from_start ==
        IF start_year # None /\ start_month # None
        THEN { r \in of_account : /\ r.year >= Value(start_year)
                                  /\ r.month >= Value(start_month) }
        ELSE of_account
      to_end ==
        IF end_year # None /\ end_month # None
        THEN { r \in from_start : /\ r.year <= Value(end_year)
                                  /\ r.month <= Value(end_month) }
        ELSE from_start
  IN Listings(to_end)

\* the listings list_snapshots_for_account may return; a bound is applied
\* only when both its year and its month are given
list_snapshots_for_account(account_id, start_year, start_month, end_year, end_month) ==
  LET of_account == { r \in snapshots : r.account_id = account_id }
      from_start ==
        IF start_year # None /\ start_month # None
        THEN { r \in of_account :
                 \/ r.year > Value(start_year)
                 \/ r.year = Value(start_year) /\ r.month >= Value(start_month) }
        ELSE of_account
      to_end ==
        IF end_year # None /\ end_month # None
        THEN { r \in from_start :
                 \/ r.year < Value(end_year)
                 \/ r.year = Value(end_year) /\ r.month <= Value(end_month) }
        ELSE from_start
  IN Listings(to_end)

\* a trend whose limit keeps the end of the ordered listing
get_balance_trend_oldest(account_id, num_months) ==
  LET eligible == IF account_id = None THEN snapshots
                  ELSE { r \in snapshots : r.account_id = Value(account_id) }
  IN { SubSeq(q, IF num_months < Len(q) THEN Len(q) - num_months + 1 ELSE 1, Len(q)) :
         q \in Listings(eligible) }

\* the listings get_balance_trend may return; account_id None selects all
get_balance_trend(account_id, num_months) ==
  LET eligible == IF account_id = None THEN snapshots
                  ELSE { r \in snapshots : r.account_id = Value(account_id) }
  IN { SubSeq(q, 1, IF num_months < Len(q) THEN num_months ELSE Len(q)) :
         q \in Listings(eligible) }

\* monthly totals whose net savings add the expenses to the income
get_monthly_totals_adding(year, month) ==
  LET total_income == Sum(ForMonth(year, month), "total_income")
      total_expense == Sum(ForMonth(year, month), "total_expense")
  IN [total_income |-> total_income,
      total_expense |-> total_expense,
      net_savings |-> total_income + total_expense]

\* AggregationService
get_monthly_totals(year, month) ==
  LET total_income == Sum(ForMonth(year, month), "total_income")
      total_expense == Sum(ForMonth(year, month), "total_expense")
  IN [total_income |-> total_income,
      total_expense |-> total_expense,
      net_savings |-> total_income - total_expense]

\* what get_monthly_totals returns to its caller: the dict of its except
\* branch when the storage layer fails during the query
get_monthly_totals_or_default(year, month, fails) ==
  IF fails
  THEN [total_income |-> 0, total_expense |-> 0, net_savings |-> 0]
  ELSE get_monthly_totals(year, month)

\* a net worth that adds the month's transactions to the snapshot balances
get_net_worth_with_transactions(year, month) ==
  IfNotNoneElseZero(SqlSum({ r \in snapshots : r.year = year /\ r.month = month },
                           "ending_balance"))
  + Sum({ t \in transactions : t.date[1] = year /\ t.date[2] = month }, "amount")

get_net_worth(year, month) ==
  IfNotNoneElseZero(SqlSum(ForMonth(year, month), "ending_balance"))

\* a percentage change that only avoids the zero divisor
PctChange_unless_zero(delta, previous) ==
  IF previous # 0 THEN <<delta * 100, previous>> ELSE <<0, 1>>

\* delta / previous * 100 as the exact fraction <<numerator, denominator>>
PctChange(delta, previous) ==
  IF previous > 0 THEN <<delta * 100, previous>> ELSE <<0, 1>>

\* a delta that looks for the previous month inside the same year
get_month_over_month_delta_same_year(year, month) ==
  LET current == get_monthly_totals(year, month)
      current_net_worth == get_net_worth(year, month)
      prev_year == year
      prev_month == IF month = 1 THEN 12 ELSE month - 1
      previous == get_monthly_totals(prev_year, prev_month)
      prev_net_worth == get_net_worth(prev_year, prev_month)
      income_delta == current.total_income - previous.total_income
      expense_delta == current.total_expense - previous.total_expense
      net_worth_delta == current_net_worth - prev_net_worth
  IN [income_delta |-> income_delta,
      expense_delta |-> expense_delta,
      net_worth_delta |-> net_worth_delta,
      income_pct_change |-> PctChange(income_delta, previous.total_income),
      expense_pct_change |-> PctChange(expense_delta, previous.total_expense),
      net_worth_pct_change |-> PctChange(net_worth_delta, prev_net_worth),
      previous_month |-> prev_month,
      previous_year |-> prev_year]

get_month_over_month_delta(year, month) ==
  LET current == get_monthly_totals(year, month)
      current_net_worth == get_net_worth(year, month)
      prev_year == IF month = 1 THEN year - 1 ELSE year
      prev_month == IF month = 1 THEN 12 ELSE month - 1
      previous == get_monthly_totals(prev_year, prev_month)
      prev_net_worth == get_net_worth(prev_year, prev_month)
      income_delta == current.total_income - previous.total_income
      expense_delta == current.total_expense - previous.total_expense
      net_worth_delta == current_net_worth - prev_net_worth
  IN [income_delta |-> income_delta,
      expense_delta |-> expense_delta,
      net_worth_delta |-> net_worth_delta,
      income_pct_change |-> PctChange(income_delta, previous.total_income),
      expense_pct_change |-> PctChange(expense_delta, previous.total_expense),
      net_worth_pct_change |-> PctChange(net_worth_delta, prev_net_worth),
      previous_month |-> prev_month,
      previous_year |-> prev_year]

\* the transactions dated in the year and, unless month is None, in the month
InPeriod(year, month) ==
  { t \in transactions : /\ t.date[1] = year
                         /\ month # None => t.date[2] = Value(month) }

\* GROUP BY category with sum(amount) and count(id)
CategoryGroups(rows) ==
  { [category |-> c,
     total |-> Sum({ t \in rows : t.category = c }, "amount"),
     count |-> Cardinality({ t \in rows : t.category = c })] :
       c \in { t.category : t \in rows } }

\* ORDER BY sum(amount) DESC: groups of one total come in any order
OrderedByTotalDesc(q) ==
  \A i \in 1..(Len(q) - 1) : q[i].total >= q[i + 1].total

\* the lists get_category_aggregates may return
get_category_aggregates(year, month) ==
  LET groups == CategoryGroups(InPeriod(year, month))
  IN { q \in [1..Cardinality(groups) -> groups] :
         /\ \A i, j \in 1..Cardinality(groups) : i # j => q[i] # q[j]
         /\ OrderedByTotalDesc(q) }

\* datetime.date ordinals: days before the year, days before the month
IsLeap(year) == year % 4 = 0 /\ (year % 100 # 0 \/ year % 400 = 0)

DaysInMonth(year, month) ==
  IF month = 2 THEN (IF IsLeap(year) THEN 29 ELSE 28)
  ELSE IF month \in {4, 6, 9, 11} THEN 30 ELSE 31

RECURSIVE DaysBeforeMonth(_, _)
DaysBeforeMonth(year, month) ==
  IF month = 1 THEN 0
  ELSE DaysBeforeMonth(year, month - 1) + DaysInMonth(year, month - 1)

ToOrdinal(d) ==
  LET y == d[1] - 1
  IN y * 365 + (y \div 4) - (y \div 100) + (y \div 400)
     + DaysBeforeMonth(d[1], d[2]) + d[3]

\* the rows of the historical query: the category's transactions dated from
\* 180 days before the first day of the month up to, not including, that day
HistoricalWindow(category, year, month) ==
  { t \in transactions :
      /\ t.category = category
      /\ ToOrdinal(t.date) >= ToOrdinal(<<year, month, 1>>) - 180
      /\ ToOrdinal(t.date) < ToOrdinal(<<year, month, 1>>) }

\* the historical statement puts sum() inside avg() in one SELECT, which
\* PostgreSQL and SQLite both refuse when the statement is executed
NestedAggregateRefused == backend \in {"postgresql", "sqlite"}

\* the average of the window's monthly totals as the fraction
\* <<sum of the totals, number of months>>, None when no month has rows
MonthlyAverage(category, year, month) ==
  LET rows == HistoricalWindow(category, year, month)
      months == { <<t.date[1], t.date[2]>> : t \in rows }
  IN IF rows = {} THEN None
     ELSE Some(<<Sum(rows, "amount"), Cardinality(months)>>)

Abs(x) == IF x < 0 THEN -x ELSE x

\* the second loop of detect_anomalies over the list q of current categories;
\* a None or zero average is not kept ("if avg_result:"), threshold is the
\* fraction <<numerator, denominator>>
Anomalies(q, year, month, threshold) ==
  LET kept(c) == /\ MonthlyAverage(c.category, year, month) # None
                 /\ Value(MonthlyAverage(c.category, year, month))[1] # 0
      avg(c) == Value(MonthlyAverage(c.category, year, month))
      flagged(c) == /\ ~ (c.total >= 0)
                    /\ kept(c)
                    /\ Abs(c.total) * avg(c)[2] * threshold[2]
                         > Abs(avg(c)[1]) * threshold[1]
      entry(c) == [category |-> c.category,
                   current_amount |-> c.total,
                   average_amount |-> << -Abs(avg(c)[1]), avg(c)[2] >>,
                   deviation_pct |-> << (Abs(c.total) * avg(c)[2] - Abs(avg(c)[1])) * 100,
                                        Abs(avg(c)[1]) >>,
                   is_high |-> TRUE]
      hits == SelectSeq(q, flagged)
  IN [i \in 1..Len(hits) |-> entry(hits[i])]

\* a detect_anomalies that asks for no history and flags every expense
detect_anomalies_without_history(year, month, threshold) ==
  { [i \in 1..Len(SelectSeq(q, LAMBDA c : c.total < 0)) |->
       [category |-> SelectSeq(q, LAMBDA c : c.total < 0)[i].category,
        current_amount |-> SelectSeq(q, LAMBDA c : c.total < 0)[i].total,
        average_amount |-> <<0, 1>>,
        deviation_pct |-> <<0, 1>>,
        is_high |-> TRUE]] :
      q \in get_category_aggregates(year, Some(month)) }

\* the lists detect_anomalies may return: the first loop runs datetime(year,
\* month, 1) and the historical statement once per current category, and
\* whatever they raise is caught and answered with the empty list
detect_anomalies(year, month, threshold) ==
  { IF q # <<>> /\ (month \notin 1..12 \/ NestedAggregateRefused)
    THEN <<>>
    ELSE Anomalies(q, year, month, threshold) :
      q \in get_category_aggregates(year, Some(month)) }

\* sum(m[field] for m in monthly_data)
RECURSIVE SeqSum(_, _)
SeqSum(q, field) ==
  IF q = <<>> THEN 0 ELSE q[1][field] + SeqSum(Tail(q), field)

\* one entry of monthly_data
MonthEntry(year, month) ==
  LET totals == get_monthly_totals(year, month)
  IN [month |-> month,
      income |-> totals.total_income,
      expense |-> totals.total_expense,
      net_savings |-> totals.net_savings,
      net_worth |-> get_net_worth(year, month)]

\* sorted(expense_categories, key=abs(total), reverse=True)[:5] of the list q:
\* the sort is stable, categories of one magnitude keep the order of q
TopExpenses(q) ==
  LET expenses == SelectSeq(q, LAMBDA c : c.total < 0)
      n == Len(expenses)
      \* the position of expenses[i] after the sort
      position(i) ==
        1 + Cardinality({ k \in 1..n :
                            \/ Abs(expenses[k].total) > Abs(expenses[i].total)
                            \/ Abs(expenses[k].total) = Abs(expenses[i].total) /\ k < i })
      sorted == [p \in 1..n |-> expenses[CHOOSE i \in 1..n : position(i) = p]]
  IN SubSeq(sorted, 1, IF n < 5 THEN n ELSE 5)

\* a yearly summary whose months run over range(12)
get_yearly_summary_from_zero(year) ==
  LET monthly_data == [i \in 1..12 |-> MonthEntry(year, i - 1)]
      yearly_income == SeqSum(monthly_data, "income")
      yearly_expense == SeqSum(monthly_data, "expense")
  IN { [year |-> year,
        total_income |-> yearly_income,
        total_expense |-> yearly_expense,
        net_savings |-> yearly_income - yearly_expense,
        monthly_data |-> monthly_data,
        top_expense_categories |-> TopExpenses(q)] :
         q \in get_category_aggregates(year, None) }

\* the summaries get_yearly_summary may return, one per order the category
\* query may list equal totals in
get_yearly_summary(year) ==
  LET monthly_data == [i \in 1..12 |-> MonthEntry(year, i)]
      yearly_income == SeqSum(monthly_data, "income")
      yearly_expense == SeqSum(monthly_data, "expense")
  IN { [year |-> year,
        total_income |-> yearly_income,
        total_expense |-> yearly_expense,
        net_savings |-> yearly_income - yearly_expense,
        monthly_data |-> monthly_data,
        top_expense_categories |-> TopExpenses(q)] :
         q \in get_category_aggregates(year, None) }

\* FinanceMCPDatabase.get_balance, behind the BALANCE action and /api/balance
get_balance ==
  Sum(transactions, "amount")

Next ==
  \/ create_account
  \/ \E a \in SnapshotArgs : create_snapshot(a)
  \/ \E a \in UpdateArgs : update_snapshot(a)
  \/ \E a \in TransactionArgs : add_transaction(a)
  \/ \E id \in 1..MaxTransactions : delete_transaction(id)

Spec == Init /\ [][Next]_vars
\* ------------------------------------------------------------------------
\* Two sessions: create_snapshot and update_snapshot step by step
\* ------------------------------------------------------------------------
\* the connection a session holds once it has run a statement: its
\* transaction stays open after the query, and after the refresh that
\* follows a commit, until the session is rolled back or closed. On
\* PostgreSQL every connection reaches the one database and is not told
\* apart; on the SQLite fallback it is the connection of the thread that ran
\* init_database ("main"), a connection of another thread or one opened
\* after close_database, whose database is empty ("empty"), or a connection
\* close_database has closed ("closed")
Connected(s, database) ==
  connection' = [connection EXCEPT ![s] = IF backend = "sqlite" THEN database ELSE @]

Finished(s, op, key, outcome, cause) ==
  /\ pc' = [pc EXCEPT ![s] = "idle"]
  /\ call' = [call EXCEPT ![s] = None]
  /\ pending' = [pending EXCEPT ![s] = None]
  /\ result' = [result EXCEPT ![s] = [op |-> op, key |-> key,
                                      outcome |-> outcome, cause |-> cause]]

\* a statement that failed so that the Session's transaction is no longer
\* usable: the flush inside db.commit() (the INSERT is rolled back, the
\* exception leaves the call) or a statement sent to a closed connection.
\* Nothing calls db.rollback(), so the session stays inactive; it sends no
\* statement before it is rolled back or closed, and its connection is
\* counted as given up
FailedFlush(s, op, key, outcome, cause) ==
  /\ pc' = [pc EXCEPT ![s] = "inactive"]
  /\ call' = [call EXCEPT ![s] = None]
  /\ pending' = [pending EXCEPT ![s] = None]
  /\ result' = [result EXCEPT ![s] = [op |-> op, key |-> key,
                                      outcome |-> outcome, cause |-> cause]]
  /\ connection' = [connection EXCEPT ![s] = "none"]

\* a call made on a session whose transaction is inactive: its first query
\* raises PendingRollbackError
call_on_inactive_session(s, op, a) ==
  /\ pc[s] = "inactive"
  /\ result' = [result EXCEPT ![s] = [op |-> op, key |-> Key(a),
                                      outcome |-> "PendingRollbackError",
                                      cause |-> "inactive"]]
  /\ UNCHANGED <<store, last, mcp_server, USE_DATABASE, response, attempts, pc, call, pending, connection>>

\* the `finally: db.close()` of get_db, or a db.rollback() of the caller,
\* between two calls: the session gives up its connection and is usable
\* again
db_close(s) ==
  /\ pc[s] = "inactive" \/ (pc[s] = "idle" /\ connection[s] # "none")
  /\ pc' = [pc EXCEPT ![s] = "idle"]
  /\ connection' = [connection EXCEPT ![s] = "none"]
  /\ UNCHANGED <<store, last, mcp_server, USE_DATABASE, response, attempts, call, pending, result>>

\* whether session s can start a call on the database that has the tables:
\* PostgreSQL sessions have a connection each and run side by side; the
\* in-memory SQLite engine is created with the default pool, one connection
\* per thread, so the sessions that see the tables are those that hold the
\* connection of the thread that ran init_database or get it now, and the
\* calls of one thread run one after another
MayStart(s) ==
  /\ tables
  /\ backend = "sqlite" =>
       /\ connection[s] \in {"none", "main"}
       /\ \A t \in Sessions \ {s} : pc[t] \in {"idle", "inactive"}

\* a call on the SQLite fallback whose connection has no tables: the
\* session holds a connection to an empty database, or holds none and gets
\* one after close_database or in another thread than the one that ran
\* init_database (a second connection to :memory: is a separate, empty
\* database). Its first query raises OperationalError (no such table); the
\* failed SELECT leaves the session usable, on that connection
call_without_tables(s, op, a) ==
  /\ pc[s] = "idle"
  /\ backend = "sqlite"
  /\ connection[s] \in {"none", "empty"}
  /\ connection' = [connection EXCEPT ![s] = "empty"]
  /\ result' = [result EXCEPT ![s] = [op |-> op, key |-> Key(a),
                                      outcome |-> "OperationalError",
                                      cause |-> "no_table"]]
  /\ UNCHANGED <<store, last, mcp_server, USE_DATABASE, response, attempts, pc, call, pending>>

\* a call on a session whose connection close_database has closed: the
\* first query raises ProgrammingError (Cannot operate on a closed
\* database), the connection is invalidated and the session refuses every
\* call until it is rolled back or closed
call_on_closed_connection(s, op, a) ==
  /\ pc[s] = "idle"
  /\ connection[s] = "closed"
  /\ FailedFlush(s, op, Key(a), "ProgrammingError", "closed")
  /\ UNCHANGED <<store, last, mcp_server, USE_DATABASE, response, attempts>>

\* close_database: engine.dispose() closes the connections of the pool. On
\* PostgreSQL these are the idle ones: sessions keep theirs and the
\* committed rows stay. On the SQLite fallback every connection is closed,
\* those that sessions hold included; the in-memory database goes with its
\* connection, and the next connection opens an empty one without tables.
\* Sessions of the same thread are between calls when it runs
close_database ==
  /\ backend = "sqlite" => \A s \in Sessions : pc[s] \in {"idle", "inactive"}
  /\ last' = "closed"
  /\ IF backend = "sqlite"
     THEN /\ tables' = FALSE
          /\ accounts' = {}
          /\ snapshots' = {}
          /\ transactions' = {}
          /\ categories' = {}
          /\ snapshot_seq' = 0
          /\ transaction_seq' = 0
          /\ connection' = [s \in Sessions |->
                              IF connection[s] = "none" THEN "none" ELSE "closed"]
          /\ UNCHANGED backend
     ELSE UNCHANGED <<store, connection>>
  /\ UNCHANGED <<pc, call, pending, result, attempts, mcp_server, USE_DATABASE, response>>

\* lines 127-139: the existence check, and the ValueError when it finds a row
create_snapshot_query(s, a) ==
  /\ pc[s] = "idle"
  /\ MayStart(s)
  /\ attempts[Key(a)].started < MaxAttempts
  /\ Connected(s, "main")
  /\ UNCHANGED <<store, last, mcp_server, USE_DATABASE, response>>
  /\ IF existing(a.account_id, a.year, a.month) # None
     THEN /\ Finished(s, "create_snapshot", Key(a), "ValueError", "duplicate")
          /\ attempts' = [attempts EXCEPT ![Key(a)].started = @ + 1,
                                          ![Key(a)].duplicate = @ + 1]
     ELSE /\ pc' = [pc EXCEPT ![s] = "create_flush"]
          /\ call' = [call EXCEPT ![s] = Some(a)]
          /\ attempts' = [attempts EXCEPT ![Key(a)].started = @ + 1]
          /\ UNCHANGED <<pending, result>>

\* lines 141-151: db.add and the INSERT that db.commit() flushes; a refused
\* INSERT is rolled back and raises IntegrityError, and on PostgreSQL it has
\* taken its id from the sequence
create_snapshot_flush(s) ==
  LET a == Value(call[s])
      row == MonthlyAccountSnapshot(a, NextId(snapshots, snapshot_seq))
      refusal == InsertRefusal(row)
  IN
  /\ pc[s] = "create_flush"
  /\ ~IndexWait(s, row)
  /\ snapshot_seq' = Taken(snapshot_seq)
  /\ UNCHANGED <<backend, tables, categories, accounts, snapshots, transactions, transaction_seq, last, mcp_server, USE_DATABASE, response>>
  /\ IF refusal # "accepted"
     THEN /\ FailedFlush(s, "create_snapshot", Key(a), "IntegrityError", refusal)
          /\ attempts' = [attempts EXCEPT ![Key(a)][refusal] = @ + 1]
     ELSE /\ pending' = [pending EXCEPT ![s] = Some(row)]
          /\ pc' = [pc EXCEPT ![s] = "create_commit"]
          /\ UNCHANGED <<call, result, attempts, connection>>

\* lines 151-153: the COMMIT, refresh and return of the created record
create_snapshot_commit(s) ==
  LET row == Value(pending[s])
  IN
  /\ pc[s] = "create_commit"
  /\ snapshots' = snapshots \cup {row}
  /\ Finished(s, "create_snapshot", Key(row), "ok", "none")
  /\ attempts' = [attempts EXCEPT ![Key(row)].ok = @ + 1]
  /\ UNCHANGED <<backend, tables, categories, accounts, transactions, snapshot_seq, transaction_seq, last, mcp_server, USE_DATABASE, response, connection>>

\* lines 179-188: load the row, return None when there is none
update_snapshot_query(s, a) ==
  LET found == existing(a.account_id, a.year, a.month)
  IN
  /\ pc[s] = "idle"
  /\ MayStart(s)
  /\ Connected(s, "main")
  /\ UNCHANGED <<store, last, mcp_server, USE_DATABASE, response, attempts>>
  /\ IF found = None
     THEN Finished(s, "update_snapshot", Key(a), "None", "none")
     ELSE /\ pc' = [pc EXCEPT ![s] = "update_commit"]
          /\ call' = [call EXCEPT ![s] = Some([id |-> Value(found).id, args |-> a])]
          /\ UNCHANGED <<pending, result>>

\* lines 190-201: assign the supplied fields, UPDATE the row by id, COMMIT
update_snapshot_commit(s) ==
  LET c == Value(call[s])
      snapshot == CHOOSE r \in snapshots : r.id = c.id
  IN
  /\ pc[s] = "update_commit"
  /\ snapshots' = (snapshots \ {snapshot}) \cup {Assigned(snapshot, c.args)}
  /\ Finished(s, "update_snapshot", Key(c.args), "ok", "none")
  /\ UNCHANGED <<backend, tables, categories, accounts, transactions, snapshot_seq, transaction_seq,
                 last, mcp_server, USE_DATABASE, response, attempts, connection>>

NextRace ==
  \/ create_account
  \/ \E s \in Sessions : \E a \in RaceSnapshotArgs : create_snapshot_query(s, a)
  \/ \E s \in Sessions : create_snapshot_flush(s)
  \/ \E s \in Sessions : create_snapshot_commit(s)
  \/ \E s \in Sessions : \E a \in UpdateArgs : update_snapshot_query(s, a)
  \/ \E s \in Sessions : update_snapshot_commit(s)
  \/ \E s \in Sessions : \E a \in RaceSnapshotArgs :
       call_on_inactive_session(s, "create_snapshot", a)
  \/ \E s \in Sessions : \E a \in UpdateArgs :
       call_on_inactive_session(s, "update_snapshot", a)
  \/ \E s \in Sessions : db_close(s)
  \/ \E s \in Sessions : \E a \in RaceSnapshotArgs :
       call_without_tables(s, "create_snapshot", a)
  \/ \E s \in Sessions : \E a \in UpdateArgs :
       call_without_tables(s, "update_snapshot", a)
  \/ \E s \in Sessions : \E a \in RaceSnapshotArgs :
       call_on_closed_connection(s, "create_snapshot", a)
  \/ \E s \in Sessions : \E a \in UpdateArgs :
       call_on_closed_connection(s, "update_snapshot", a)
  \/ close_database

SpecRace == Init /\ [][NextRace]_vars
\* ------------------------------------------------------------------------
\* Read side and FinanceMCPDatabase, asked over a populated store
\* ------------------------------------------------------------------------
\* snapshots with the values the demo script gives its checking account and
\* its credit card, here accounts 1 and 2, and a February snapshot of the
\* checking account, in the order they are created
ApiSnapshotArgs ==
  << [account_id |-> 1, year |-> 2025, month |-> 12, starting_balance |-> 2000,
      ending_balance |-> 2500, total_income |-> 3000, total_expense |-> 2500],
     [account_id |-> 2, year |-> 2025, month |-> 12, starting_balance |-> -500,
      ending_balance |-> -300, total_income |-> 0, total_expense |-> 800],
     [account_id |-> 1, year |-> 2026, month |-> 1, starting_balance |-> 2500,
      ending_balance |-> 3200, total_income |-> 3500, total_expense |-> 2800],
     [account_id |-> 2, year |-> 2026, month |-> 1, starting_balance |-> -300,
      ending_balance |-> -100, total_income |-> 0, total_expense |-> 700],
     [account_id |-> 1, year |-> 2026, month |-> 2, starting_balance |-> 3200,
      ending_balance |-> 3300, total_income |-> 3500, total_expense |-> 3400] >>

\* transactions of the checking account, added with the parameters
\* add_transaction has: transport in June and December 2025 and in January
\* 2026, and the January salary
ApiTransactionArgs ==
  << [account_id |-> 1, date |-> <<2025, 6, 8>>, amount |-> -40,
      category |-> "Transportation", description |-> "Gas for car"],
     [account_id |-> 1, date |-> <<2025, 12, 8>>, amount |-> -60,
      category |-> "Transportation", description |-> "Gas for car"],
     [account_id |-> 1, date |-> <<2026, 1, 8>>, amount |-> -120,
      category |-> "Transportation", description |-> "Gas for car"],
     [account_id |-> 1, date |-> <<2026, 1, 10>>, amount |-> 3500,
      category |-> "Salary", description |-> "Monthly salary"] >>

\* the rows left by the calls chosen from a list of arguments, made in the
\* list's order: ids are handed out in that order
Rank(chosen, i) == Cardinality({ j \in chosen : j <= i })

SnapshotsOf(chosen) ==
  { MonthlyAccountSnapshot(ApiSnapshotArgs[i], Rank(chosen, i)) : i \in chosen }

TransactionsOf(chosen) ==
  { Transaction(ApiTransactionArgs[i], Rank(chosen, i)) : i \in chosen }

\* the store after both accounts and any of the snapshots and transactions
\* above were created
InitApi ==
  /\ backend \in {"postgresql", "sqlite"}
  /\ tables = TRUE
  /\ accounts = AccountIds
  /\ \E chosen \in SUBSET DOMAIN ApiSnapshotArgs :
       /\ snapshots = SnapshotsOf(chosen)
       /\ snapshot_seq = IF backend = "postgresql" THEN Cardinality(chosen) ELSE 0
  /\ \E chosen \in SUBSET DOMAIN ApiTransactionArgs :
       /\ transactions = TransactionsOf(chosen)
       /\ transaction_seq = IF backend = "postgresql" THEN Cardinality(chosen) ELSE 0
  /\ categories = {}
  /\ last = "init"
  /\ mcp_server = FinanceMCPDatabase
  /\ USE_DATABASE = TRUE
  /\ response = NoResponse
  /\ pc = [s \in Sessions |-> "idle"]
  /\ call = [s \in Sessions |-> None]
  /\ pending = [s \in Sessions |-> None]
  /\ result = [s \in Sessions |-> NoResult]
  /\ attempts = [k \in Keys |-> NoAttempts]
  /\ connection = [s \in Sessions |-> "none"]

\* the demo script's categories
CategoryArgs ==
  { [name |-> "Salary", type |-> "income"],
    [name |-> "Transportation", type |-> "expense"] }

\* SnapshotService.create_category: the unique index on name refuses a second
\* category of the same name
create_category(a) ==
  /\ UNCHANGED <<backend, tables, accounts, snapshots, transactions, snapshot_seq,
                 transaction_seq>>
  /\ UNCHANGED <<race, mcp_server, USE_DATABASE, response>>
  /\ IF \E c \in categories : c.name = a.name
     THEN /\ last' = "IntegrityError"
          /\ UNCHANGED categories
     ELSE /\ categories' = categories \cup {[name |-> a.name, type |-> a.type]}
          /\ last' = "ok"

\* the aggregate queries of SnapshotService: none has a try / except around
\* its query
SnapshotServiceAggregates ==
  {"get_total_balance_for_month", "get_current_total_balance",
   "get_total_expenses_for_month", "get_total_income_for_month",
   "get_balance_trend"}

\* the aggregate queries of AggregationService: each body is inside
\* try / except Exception, which logs and returns the method's default when
\* an exception reaches it
AggregationServiceAggregates ==
  {"get_monthly_totals", "get_net_worth", "get_category_aggregates",
   "get_month_over_month_delta", "detect_anomalies", "get_yearly_summary"}

\* the aggregates that only call other aggregates
CompositeAggregates == {"get_month_over_month_delta", "get_yearly_summary"}

\* the periods the aggregate queries are asked for
ApiQueryPeriods == {<<2025, 1>>, <<2025, 12>>, <<2026, 1>>, <<2026, 2>>}

\* a call of one SnapshotService aggregate; fails: the storage layer raises
\* while the query runs, and the exception reaches the caller
snapshot_service_aggregate(method, fails) ==
  /\ method \in SnapshotServiceAggregates
  /\ last' = IF fails THEN "raised" ELSE "ok"
  /\ UNCHANGED store
  /\ UNCHANGED <<race, mcp_server, USE_DATABASE, response>>

\* a call of list_snapshots_for_account, which has no try / except either
snapshot_service_listing(account_id, fails) ==
  /\ account_id \in AccountIds
  /\ last' = IF fails THEN "raised" ELSE "listed"
  /\ UNCHANGED store
  /\ UNCHANGED <<race, mcp_server, USE_DATABASE, response>>

\* an aggregate that records the categories it has seen
aggregation_service_aggregate_recording(method, year, month, fails) ==
  /\ method \in AggregationServiceAggregates
  /\ last' = IF ~fails THEN "ok"
             ELSE IF method \in CompositeAggregates THEN "zeros" ELSE "default"
  /\ categories' = categories \cup
                     { [name |-> t.category, type |-> "expense"] :
                         t \in InPeriod(year, Some(month)) }
  /\ UNCHANGED <<backend, tables, accounts, snapshots, transactions, snapshot_seq,
                 transaction_seq>>
  /\ UNCHANGED <<race, mcp_server, USE_DATABASE, response>>

\* a call of one AggregationService aggregate for (year, month). The four
\* methods that query the storage catch its exception, and detect_anomalies
\* the refused historical statement too, and answer with their default. The
\* two composite methods never see the exception: the methods they call
\* have caught it, so they answer with what they compute from zeros
\* (previous_month and previous_year set, twelve monthly entries) and their
\* own except branch does not run
aggregation_service_aggregate(method, year, month, fails) ==
  LET caught == \/ fails
                \/ /\ method = "detect_anomalies"
                   /\ get_category_aggregates(year, Some(month)) # {<<>>}
                   /\ (month \notin 1..12 \/ NestedAggregateRefused)
  IN
  /\ method \in AggregationServiceAggregates
  /\ last' = IF ~caught THEN "ok"
             ELSE IF method \in CompositeAggregates THEN "zeros" ELSE "default"
  /\ UNCHANGED store
  /\ UNCHANGED <<race, mcp_server, USE_DATABASE, response>>

\* the attributes the declarative constructor of Transaction accepts
TransactionAttributes ==
  {"id", "account_id", "date", "amount", "category", "description",
   "created_at", "updated_at", "category_id", "category_rel", "account"}

\* the calls of tests/test_mcp.py, made on the database-backed class: both
\* name the category "food", which table categories does not hold yet
McpTransactionArgs ==
  { [amount |-> -50, category |-> "food", description |-> "Grocery shopping",
     date |-> Some(<<2026, 1, 11>>), currency |-> None],
    [amount |-> -50, category |-> "food", description |-> "Grocery shopping",
     date |-> Some(<<2026, 1, 11>>), currency |-> Some("USD")] }

\* FinanceMCPDatabase.add_transaction: Transaction(...) is built with the
\* keyword currency, which the model does not define, so the constructor
\* raises TypeError before db.add; with accepted keywords the row would lack
\* the NOT NULL account_id and the commit would raise IntegrityError
FinanceMCPDatabase_add_transaction(a) ==
  LET keywords == [date |-> a.date, amount |-> a.amount,
                   category |-> a.category, description |-> a.description,
                   currency |-> IF a.currency = None THEN "EUR"
                                ELSE Value(a.currency)]
  IN
  /\ last' = IF DOMAIN keywords \ TransactionAttributes # {}
             THEN "TypeError" ELSE "IntegrityError"
  /\ UNCHANGED store
  /\ UNCHANGED <<race, mcp_server, USE_DATABASE, response>>

\* the ids get_account is asked for: the two accounts and an id never handed out
LookupAccountIds == AccountIds \cup {3}

NextApi ==
  \/ \E a \in CategoryArgs : create_category(a)
  \/ \E a \in UpdateArgs : update_snapshot(a)
  \/ \E a \in UpdateArgs : get_snapshot(a.account_id, a.year, a.month)
  \/ \E id \in LookupAccountIds : get_account(id)
  \/ \E a \in McpTransactionArgs : FinanceMCPDatabase_add_transaction(a)
  \/ \E a \in DemoTransactionArgs : add_transaction(a)
  \/ \E m \in SnapshotServiceAggregates, fails \in BOOLEAN :
       snapshot_service_aggregate(m, fails)
  \/ \E id \in AccountIds, fails \in BOOLEAN : snapshot_service_listing(id, fails)
  \/ \E m \in AggregationServiceAggregates, p \in ApiQueryPeriods, fails \in BOOLEAN :
       aggregation_service_aggregate(m, p[1], p[2], fails)

SpecApi == InitApi /\ [][NextApi]_vars

\* ------------------------------------------------------------------------
\* FinanceMCP in memory, FinanceMCPDatabase and the statement upload
\* ------------------------------------------------------------------------
\* a string the code looks inside (a category) is the tuple of its
\* characters; an ISO date string "YYYY-MM-DD" is the number YYYYMMDD, whose
\* order is the order of the strings
food == <<"f", "o", "o", "d">>

Food == <<"F", "o", "o", "d">>

transport == <<"t", "r", "a", "n", "s", "p", "o", "r", "t">>

rent == <<"r", "e", "n", "t">>

income == <<"i", "n", "c", "o", "m", "e">>

\* str.lower, on the characters used here
lower(s) ==
  [i \in DOMAIN s |->
     CASE s[i] = "F" -> "f" [] s[i] = "O" -> "o" [] s[i] = "D" -> "d"
       [] s[i] = "T" -> "t" [] OTHER -> s[i]]

\* date.isoformat
isoformat(d) == d[1] * 10000 + d[2] * 100 + d[3]

\* datetime.fromisoformat(s).date()
fromisoformat(s) == <<s \div 10000, (s \div 100) % 100, s % 100>>

\* datetime.date.today(): the day the clock shows when it is read, here the
\* last day of October 2026 or the day after
ClockDays == { <<2026, 10, 31>>, <<2026, 11, 1>> }

\* the days each add_transaction of a bulk add of n dictionaries may read
Clocks(n) == [1..n -> ClockDays]

\* the day before d
yesterday(d) ==
  IF d[3] > 1 THEN <<d[1], d[2], d[3] - 1>>
  ELSE IF d[2] > 1 THEN <<d[1], d[2] - 1, DaysInMonth(d[1], d[2] - 1)>>
  ELSE <<d[1] - 1, 12, 31>>

\* today - datetime.timedelta(days=days)
RECURSIVE timedelta_before(_, _)
timedelta_before(today, days) ==
  IF days = 0 THEN today ELSE timedelta_before(yesterday(today), days - 1)

Range(q) == { q[i] : i \in DOMAIN q }

\* the dictionary FinanceMCP.add_transaction builds; currency None stands
\* for a dictionary without that key
new_entry(self, a, today) ==
  [id |-> self.next_id,
   date |-> IF a.date = None THEN isoformat(today) ELSE Value(a.date),
   amount |-> a.amount, category |-> a.category,
   description |-> a.description, currency |-> a.currency]

\* FinanceMCP._set_next_id
set_next_id(stored) ==
  IF stored = <<>> THEN 1
  ELSE Max({ stored[i].id : i \in DOMAIN stored } \cup {0}) + 1

\* FinanceMCP(initial_transactions)
FinanceMCP(initial_transactions) ==
  [class |-> "FinanceMCP", transactions |-> initial_transactions,
   next_id |-> set_next_id(initial_transactions)]

\* the instance after FinanceMCP.add_transaction, when the id is taken from
\* the length of the list
FinanceMCP_add_transaction_counting(self, a, today) ==
  [self EXCEPT !.transactions =
                 Append(@, [new_entry(self, a, today) EXCEPT !.id = Len(self.transactions) + 1]),
               !.next_id = Len(self.transactions) + 2]

\* the instance after FinanceMCP.add_transaction: the new entry is the last
\* of its list
FinanceMCP_add_transaction(self, a, today) ==
  [self EXCEPT !.transactions = Append(@, new_entry(self, a, today)),
               !.next_id = @ + 1]

\* the instance after FinanceMCP.add_transactions_bulk: one add_transaction
\* for each dictionary, in order, each reading the clock for itself
RECURSIVE FinanceMCP_add_transactions_bulk(_, _, _)
FinanceMCP_add_transactions_bulk(self, batch, clock) ==
  IF batch = <<>> THEN self
  ELSE FinanceMCP_add_transactions_bulk(
         FinanceMCP_add_transaction(self, Head(batch), Head(clock)),
         Tail(batch), Tail(clock))

\* the instance after FinanceMCP.delete_transaction: next_id is left alone
FinanceMCP_delete_transaction(self, transaction_id) ==
  [self EXCEPT !.transactions = SelectSeq(@, LAMBDA t : t.id # transaction_id)]

\* `if category:`: None and the empty string are falsy
Given(o) == o # None /\ Value(o) # <<>>

\* `if start_date:` and `if end_date:`, for None or a date string
GivenDate(o) == o # None

\* FinanceMCP.list_transactions
FinanceMCP_list_transactions(self, category, start_date, end_date) ==
  LET by_category ==
        IF Given(category)
        THEN SelectSeq(self.transactions,
                       LAMBDA t : lower(t.category) = lower(Value(category)))
        ELSE self.transactions
      by_start ==
        IF GivenDate(start_date)
        THEN SelectSeq(by_category, LAMBDA t : t.date >= Value(start_date))
        ELSE by_category
  IN IF GivenDate(end_date)
     THEN SelectSeq(by_start, LAMBDA t : t.date <= Value(end_date))
     ELSE by_start

\* SQL ILIKE: % stands for any run of characters, _ for any one character,
\* everything else for itself in either case
RECURSIVE ilike(_, _)
ilike(s, pattern) ==
  IF pattern = <<>> THEN s = <<>>
  ELSE IF Head(pattern) = "%"
       THEN ilike(s, Tail(pattern)) \/ (s # <<>> /\ ilike(Tail(s), pattern))
       ELSE /\ s # <<>>
            /\ \/ Head(pattern) = "_"
               \/ lower(<<Head(pattern)>>) = lower(<<Head(s)>>)
            /\ ilike(Tail(s), Tail(pattern))

\* Transaction.to_dict
to_dict(t) ==
  [id |-> t.id, account_id |-> t.account_id, date |-> isoformat(t.date),
   amount |-> t.amount, category |-> t.category,
   description |-> t.description]

\* the rows FinanceMCPDatabase.list_transactions selects
FinanceMCPDatabase_rows(category, start_date, end_date) ==
  { t \in transactions :
      /\ Given(category) => ilike(t.category, Value(category))
      /\ GivenDate(start_date) =>
           ToOrdinal(t.date) >= ToOrdinal(fromisoformat(Value(start_date)))
      /\ GivenDate(end_date) =>
           ToOrdinal(t.date) <= ToOrdinal(fromisoformat(Value(end_date))) }

\* FinanceMCPDatabase.list_transactions: every listing of the selected rows
\* that ORDER BY date DESC allows, each row as its dictionary
FinanceMCPDatabase_list_transactions(category, start_date, end_date) ==
  LET rows == FinanceMCPDatabase_rows(category, start_date, end_date)
      n == Cardinality(rows)
  IN { [i \in 1..n |-> to_dict(q[i])] :
         q \in { q \in [1..n -> rows] :
                   /\ \A i, j \in 1..n : i # j => q[i] # q[j]
                   /\ \A i \in 1..(n - 1) :
                        ToOrdinal(q[i].date) >= ToOrdinal(q[i + 1].date) } }

\* how FinanceMCPDatabase.add_transactions_bulk ends: with no dictionary it
\* commits nothing; otherwise the first Transaction(...) is built with the
\* keyword currency and raises TypeError before db.add; with accepted
\* keywords the row would lack the NOT NULL account_id
FinanceMCPDatabase_add_transactions_bulk(batch) ==
  LET keywords == {"date", "amount", "category", "description", "currency"}
  IN IF batch = <<>> THEN "ok"
     ELSE IF keywords \ TransactionAttributes # {} THEN "TypeError"
     ELSE "IntegrityError"

\* TransactionParser.remove_duplicates
remove_duplicates(new_transactions, existing_transactions) ==
  SelectSeq(new_transactions,
            LAMBDA t : ~ \E e \in Range(existing_transactions) :
                           /\ Value(t.date) = e.date
                           /\ Abs(t.amount - e.amount) * 100 < 1
                           /\ t.description = e.description)

\* get_initial_data(): seven transactions of the last seven days, ids 1..7,
\* none with a currency
get_initial_data(today) ==
  << [id |-> 1, date |-> isoformat(timedelta_before(today, 6)), amount |-> -50,
      category |-> food, description |-> "Grocery shopping", currency |-> None],
     [id |-> 2, date |-> isoformat(timedelta_before(today, 5)), amount |-> -15,
      category |-> transport, description |-> "Bus ticket", currency |-> None],
     [id |-> 3, date |-> isoformat(timedelta_before(today, 4)), amount |-> -1200,
      category |-> rent, description |-> "Monthly rent", currency |-> None],
     [id |-> 4, date |-> isoformat(timedelta_before(today, 3)), amount |-> -30,
      category |-> food, description |-> "Dinner out", currency |-> None],
     [id |-> 5, date |-> isoformat(timedelta_before(today, 2)), amount |-> 2000,
      category |-> income, description |-> "Salary", currency |-> None],
     [id |-> 6, date |-> isoformat(timedelta_before(today, 1)), amount |-> -45,
      category |-> food, description |-> "Lunch with friends", currency |-> None],
     [id |-> 7, date |-> isoformat(today), amount |-> -10,
      category |-> transport, description |-> "Parking", currency |-> None] >>

\* the lists the tests construct FinanceMCP with directly: none, the two
\* transactions of tests/test_mcp.py, and two whose ids are neither
\* contiguous nor ascending
McpInitialTransactions ==
  { <<>>,
    << [id |-> 1, date |-> 20260111, amount |-> -50, category |-> food,
        description |-> "Grocery", currency |-> None],
       [id |-> 2, date |-> 20260112, amount |-> -30, category |-> transport,
        description |-> "Gas", currency |-> None] >>,
    << [id |-> 4, date |-> 20260201, amount |-> -80, category |-> Food,
        description |-> "Dinner", currency |-> None],
       [id |-> 2, date |-> 20260112, amount |-> -30, category |-> transport,
        description |-> "Gas", currency |-> None] >> }

\* the rows SnapshotService.add_transaction left in table transactions
McpDatabaseArgs ==
  << [account_id |-> 1, date |-> <<2026, 1, 11>>, amount |-> -50,
      category |-> food, description |-> "Grocery"],
     [account_id |-> 1, date |-> <<2026, 1, 12>>, amount |-> -30,
      category |-> transport, description |-> "Gas"],
     [account_id |-> 1, date |-> <<2026, 2, 1>>, amount |-> -80,
      category |-> Food, description |-> "Dinner"] >>

\* the dictionaries handed to add_transaction and add_transactions_bulk: a
\* missing key is None
McpAddArgs ==
  << [amount |-> -50, category |-> food, description |-> "Grocery shopping",
      date |-> Some(20260111), currency |-> None],
     [amount |-> 2000, category |-> income,
      description |-> "Salary", date |-> None, currency |-> Some("USD")] >>

McpBatches ==
  { <<>>, <<McpAddArgs[1]>>, <<McpAddArgs[1], McpAddArgs[2]>> }

\* what parse_transactions makes of an uploaded file: the three rows of
\* tests/test_integration.py, a file that holds the same row twice, and a
\* file without a valid row
Statements ==
  { << [date |-> Some(20260115), description |-> "Test Grocery", amount |-> -50,
        currency |-> Some("EUR"), category |-> food],
       [date |-> Some(20260116), description |-> "Test Gas Station", amount |-> -30,
        currency |-> Some("EUR"), category |-> transport],
       [date |-> Some(20260117), description |-> "Test Salary", amount |-> 2000,
        currency |-> Some("EUR"), category |-> income] >>,
    << [date |-> Some(20260111), description |-> "Grocery", amount |-> -50,
        currency |-> Some("EUR"), category |-> food],
       [date |-> Some(20260111), description |-> "Grocery", amount |-> -50,
        currency |-> Some("EUR"), category |-> food] >>,
    <<>> }

\* the category filters asked for: none, the empty string, a stored name, the
\* same name in capitals, two patterns and a proper prefix of a stored name
ListCategories ==
  { None, Some(<<>>), Some(food), Some(<<"F", "O", "O", "D">>),
    Some(<<"f", "_", "o", "d">>), Some(<<"%">>), Some(<<"f", "o", "o">>) }

\* the date ranges asked for, as (start_date, end_date)
ListRanges ==
  { <<None, None>>, <<Some(20260112), None>>, <<None, Some(20260112)>>,
    <<Some(20260112), Some(20260201)>>, <<Some(20261027), Some(20261031)>> }

\* the ids asked to be deleted: ids the constructed lists hold, and the
\* first id each kind of instance hands out
DeleteIds == {1, 2, 3, 8}

\* the adds followed: an instance the tests construct holds at most
\* MaxStored transactions and hands out ids up to MaxId; the instance made
\* from get_initial_data, whose first new id is 8, hands out MaxAdded ids
WithinBound(self, n) ==
  IF self.next_id < 8
  THEN Len(self.transactions) + n <= MaxStored /\ self.next_id + n - 1 <= MaxId
  ELSE self.next_id + n - 1 < 8 + MaxAdded

\* how far an init_database that raised has come: create_engine raised both
\* times and there is no session factory ("none"); the factory was bound to
\* the PostgreSQL engine before the connection test failed, and the fallback
\* engine could not be made ("postgresql"); or the factory was bound to the
\* fallback engine before create_all failed ("sqlite"). In none of them can
\* a table be reached
FailedInitBackends == {"none", "postgresql", "sqlite"}

\* a query of the database-backed instance that cannot reach its tables
\* raises OperationalError
StorageFails == mcp_server.class = "FinanceMCPDatabase" /\ ~tables

\* the instance at work. get_mcp_server() hands out the database-backed
\* one after init_database, or FinanceMCP(get_initial_data()) when
\* USE_DATABASE is off or init_database raised; the tests construct
\* FinanceMCP(initial) themselves
InitMcp ==
  /\ snapshots = {}
  /\ snapshot_seq = 0
  /\ categories = {}
  /\ \/ \E chosen \in SUBSET DOMAIN McpDatabaseArgs :
          /\ USE_DATABASE = TRUE
          /\ backend \in {"postgresql", "sqlite"}
          /\ tables = TRUE
          /\ accounts = AccountIds
          /\ mcp_server = FinanceMCPDatabase
          /\ transactions = { Transaction(McpDatabaseArgs[i], Rank(chosen, i)) : i \in chosen }
          /\ transaction_seq = IF backend = "postgresql" THEN Cardinality(chosen) ELSE 0
     \/ /\ USE_DATABASE \in BOOLEAN
        /\ backend \in IF USE_DATABASE THEN FailedInitBackends ELSE {"none"}
        /\ tables = FALSE
        /\ accounts = {}
        /\ transactions = {}
        /\ transaction_seq = 0
        /\ \/ \E today \in ClockDays : mcp_server = FinanceMCP(get_initial_data(today))
           \/ /\ USE_DATABASE = FALSE
              /\ \E initial \in McpInitialTransactions : mcp_server = FinanceMCP(initial)
  /\ last = "init"
  /\ response = NoResponse
  /\ pc = [s \in Sessions |-> "idle"]
  /\ call = [s \in Sessions |-> None]
  /\ pending = [s \in Sessions |-> None]
  /\ result = [s \in Sessions |-> NoResult]
  /\ attempts = [k \in Keys |-> NoAttempts]
  /\ connection = [s \in Sessions |-> "none"]

\* mcp_server.add_transaction(**a) on the in-memory instance
mcp_add_transaction(a) ==
  /\ mcp_server.class = "FinanceMCP"
  /\ WithinBound(mcp_server, 1)
  /\ \E today \in ClockDays :
       /\ mcp_server' = FinanceMCP_add_transaction(mcp_server, a, today)
       /\ response' = [call |-> "add_transaction", args |-> a, outcome |-> "ok",
                       returned |-> new_entry(mcp_server, a, today)]
  /\ last' = "ok"
  /\ UNCHANGED <<store, race, USE_DATABASE>>

\* mcp_server.delete_transaction(transaction_id) on the in-memory instance
mcp_delete_transaction(transaction_id) ==
  /\ mcp_server.class = "FinanceMCP"
  /\ mcp_server' = FinanceMCP_delete_transaction(mcp_server, transaction_id)
  /\ response' = [call |-> "delete_transaction", args |-> transaction_id,
                  outcome |-> "ok",
                  returned |-> Len(mcp_server'.transactions) < Len(mcp_server.transactions)]
  /\ last' = "ok"
  /\ UNCHANGED <<store, race, USE_DATABASE>>

\* mcp_server.add_transactions_bulk(batch)
mcp_add_transactions_bulk(batch) ==
  /\ UNCHANGED <<store, race, USE_DATABASE>>
  /\ IF mcp_server.class = "FinanceMCP"
     THEN /\ WithinBound(mcp_server, Len(batch))
          /\ \E clock \in Clocks(Len(batch)) :
               mcp_server' = FinanceMCP_add_transactions_bulk(mcp_server, batch, clock)
          /\ response' = [call |-> "add_transactions_bulk", args |-> batch,
                          outcome |-> "ok",
                          returned |-> SubSeq(mcp_server'.transactions,
                                              Len(mcp_server.transactions) + 1,
                                              Len(mcp_server'.transactions))]
          /\ last' = "ok"
     ELSE /\ mcp_server' = mcp_server
          /\ response' = [call |-> "add_transactions_bulk", args |-> batch,
                          outcome |-> FinanceMCPDatabase_add_transactions_bulk(batch),
                          returned |-> <<>>]
          /\ last' = FinanceMCPDatabase_add_transactions_bulk(batch)

\* mcp_server.list_transactions(category, start_date, end_date)
mcp_list_transactions(category, start_date, end_date) ==
  /\ UNCHANGED <<store, race, mcp_server, USE_DATABASE>>
  /\ IF StorageFails
     THEN /\ last' = "OperationalError"
          /\ response' = [call |-> "list_transactions",
                          args |-> <<category, start_date, end_date>>,
                          outcome |-> "OperationalError", returned |-> <<>>]
     ELSE /\ last' = "ok"
          /\ \E listing \in
                 IF mcp_server.class = "FinanceMCP"
                 THEN { FinanceMCP_list_transactions(mcp_server, category, start_date,
                                                     end_date) }
                 ELSE FinanceMCPDatabase_list_transactions(category, start_date, end_date) :
               response' = [call |-> "list_transactions",
                            args |-> <<category, start_date, end_date>>,
                            outcome |-> "ok", returned |-> listing]

\* POST /statements/upload with a file parse_transactions reads as
\* `parsed`: the stored categories are read before the file is parsed, the
\* duplicates of stored transactions are dropped, the rest is added in bulk;
\* any exception on the way is answered with HTTP 500
upload_statement(parsed) ==
  LET existing_transactions ==
        IF mcp_server.class = "FinanceMCP"
        THEN FinanceMCP_list_transactions(mcp_server, None, None, None)
        ELSE CHOOSE q \in FinanceMCPDatabase_list_transactions(None, None, None) : TRUE
      unique_transactions == remove_duplicates(parsed, existing_transactions)
      answer(n) == [transactions_added |-> n,
                    transactions_skipped |-> Len(parsed) - Len(unique_transactions)]
      \* history, for the properties: whether the request before this one
      \* uploaded the same file, and how many transactions were stored then
      repeated == response.call = "upload_statement" /\ response.args = parsed
      stored_before == IF mcp_server.class = "FinanceMCP"
                       THEN Len(mcp_server.transactions)
                       ELSE Cardinality(transactions)
  IN
  /\ UNCHANGED <<store, race, USE_DATABASE>>
  /\ IF StorageFails
     THEN /\ mcp_server' = mcp_server
          /\ response' = [call |-> "upload_statement", args |-> parsed,
                          outcome |-> "HTTP 500", returned |-> None,
                          repeated |-> repeated, stored_before |-> stored_before]
          /\ last' = "OperationalError"
     ELSE IF parsed = <<>>
     THEN /\ mcp_server' = mcp_server
          /\ response' = [call |-> "upload_statement", args |-> parsed,
                          outcome |-> "HTTP 200",
                          returned |-> [transactions_added |-> 0,
                                        transactions_skipped |-> 0],
                          repeated |-> repeated, stored_before |-> stored_before]
          /\ last' = "ok"
     ELSE IF mcp_server.class = "FinanceMCP"
     THEN /\ WithinBound(mcp_server, Len(unique_transactions))
          /\ \E clock \in Clocks(Len(unique_transactions)) :
               mcp_server' = FinanceMCP_add_transactions_bulk(mcp_server, unique_transactions,
                                                              clock)
          /\ response' = [call |-> "upload_statement", args |-> parsed,
                          outcome |-> "HTTP 200",
                          returned |-> answer(Len(unique_transactions)),
                          repeated |-> repeated, stored_before |-> stored_before]
          /\ last' = "ok"
     ELSE /\ mcp_server' = mcp_server
          /\ IF FinanceMCPDatabase_add_transactions_bulk(unique_transactions) = "ok"
             THEN /\ response' = [call |-> "upload_statement", args |-> parsed,
                                  outcome |-> "HTTP 200", returned |-> answer(0),
                                  repeated |-> repeated, stored_before |-> stored_before]
                  /\ last' = "ok"
             ELSE /\ response' = [call |-> "upload_statement", args |-> parsed,
                                  outcome |-> "HTTP 500", returned |-> None,
                                  repeated |-> repeated, stored_before |-> stored_before]
                  /\ last' = FinanceMCPDatabase_add_transactions_bulk(unique_transactions)

\* reset_mcp_server(): the instance at work is replaced by a fresh one of
\* the configured kind, whether init_database has succeeded or not;
\* FinanceMCPDatabase() asks get_db_session for a session, which raises
\* RuntimeError when there is no session factory and sends no statement
\* otherwise
reset_mcp_server ==
  /\ UNCHANGED <<store, race, USE_DATABASE>>
  /\ IF USE_DATABASE /\ backend = "none"
     THEN /\ mcp_server' = mcp_server
          /\ response' = [call |-> "reset_mcp_server", args |-> None,
                          outcome |-> "RuntimeError", returned |-> None]
          /\ last' = "RuntimeError"
     ELSE /\ IF USE_DATABASE
             THEN mcp_server' = FinanceMCPDatabase
             ELSE \E today \in ClockDays :
                    mcp_server' = FinanceMCP(get_initial_data(today))
          /\ response' = [call |-> "reset_mcp_server", args |-> None,
                          outcome |-> "ok", returned |-> None]
          /\ last' = "ok"

NextMcp ==
  \/ \E i \in DOMAIN McpAddArgs : mcp_add_transaction(McpAddArgs[i])
  \/ \E id \in DeleteIds : mcp_delete_transaction(id)
  \/ \E batch \in McpBatches : mcp_add_transactions_bulk(batch)
  \/ \E c \in ListCategories, r \in ListRanges :
       mcp_list_transactions(c, r[1], r[2])
  \/ \E parsed \in Statements : upload_statement(parsed)
  \/ reset_mcp_server

SpecMcp == InitMcp /\ [][NextMcp]_vars

\* ------------------------------------------------------------------------
\* Properties
\* ------------------------------------------------------------------------
\* the periods the queries are asked for: the stored ones and January 2025,
\* which never has a snapshot
QueryPeriods == Periods \cup {<<2025, 1>>}

InFlight(k) ==
  \E s \in Sessions : /\ pc[s] \in {"create_flush", "create_commit"}
                      /\ Key(Value(call[s])) = k

\* C1: in every reachable state, after any interleaving of create_snapshot
\* and update_snapshot steps of the two sessions, at most one committed
\* snapshot exists for each (account_id, year, month).
C1_OneSnapshotPerKey ==
  \A r1, r2 \in snapshots : Key(r1) = Key(r2) => r1 = r2

\* a create lost the race at the INSERT and an update went through
C1_Witness ==
  \E s, t \in Sessions :
     /\ result[s].outcome = "IntegrityError" /\ result[s].cause = "duplicate"
     /\ result[t].op = "update_snapshot" /\ result[t].outcome = "ok"
     /\ \E r \in snapshots : Key(r) = result[s].key

\* C2: when exactly two create_snapshot calls were made for a key on usable
\* sessions (with no foreign-key refusal) and both have finished, then whatever the
\* interleaving of their check, INSERT and COMMIT steps, exactly one returned
\* the created record and the other failed with a duplicate error.
C2_ExactlyOneSucceeds ==
  \A k \in Keys :
     (/\ attempts[k].started = 2
      /\ attempts[k].foreign_key = 0
      /\ ~InFlight(k))
     => (attempts[k].ok = 1 /\ attempts[k].duplicate = 1)

\* both sessions passed the existence check for the same key; one committed,
\* the other was refused by the unique constraint
C2_Witness ==
  \E s, t \in Sessions :
     /\ s # t
     /\ result[s].op = "create_snapshot" /\ result[s].outcome = "ok"
     /\ result[t].op = "create_snapshot" /\ result[t].outcome = "IntegrityError"
     /\ result[t].cause = "duplicate"
     /\ result[s].key = result[t].key
     /\ attempts[result[s].key].started = 2

\* C3: a create_snapshot call for a key that already has a snapshot fails
\* with the duplicate error (ValueError) and leaves the snapshots exactly as
\* they were: no second row, no overwritten value.
C3_DuplicateCreateFails ==
  [][\A a \in SnapshotArgs :
       (create_snapshot(a) /\ \E r \in snapshots : Key(r) = Key(a))
       => (last' = "ValueError" /\ snapshots' = snapshots)]_vars

\* the second call happened: it raised, and the stored row has other values
\* than some call for that key would have written
C3_Witness ==
  /\ last = "ValueError"
  /\ \E r \in snapshots : \E a \in SnapshotArgs :
        Key(a) = Key(r) /\ a.ending_balance # r.ending_balance

\* C4: every create_snapshot call that meets a duplicate key ends in the
\* ValueError of its docstring, and every other call returns the record; no
\* call ends in another error because of a duplicate key.
C4_DuplicateIsValueError ==
  \A s \in Sessions :
     (result[s].op = "create_snapshot" /\ result[s].cause \notin {"foreign_key", "inactive", "no_table", "closed"})
     => (\/ result[s].outcome = "ok"
         \/ result[s].outcome = "ValueError" /\ result[s].cause = "duplicate")

\* C5: a month outside 1..12 never reaches storage, so every stored month is
\* in 1..12 and year*100+month orders the snapshots as (year, month) does.
C5_StoredMonthsValid ==
  /\ \A r \in snapshots : r.month \in 1..12
  /\ \A r1, r2 \in snapshots :
        (max_period_key(r1) <= max_period_key(r2))
        <=> (\/ r1.year < r2.year
             \/ r1.year = r2.year /\ r1.month <= r2.month)

\* C6: every stored snapshot's account_id refers to an existing account.
C6_SnapshotAccountExists ==
  \A r \in snapshots : r.account_id \in accounts

LatestOf(account_id) ==
  LET rows == { r \in snapshots : r.account_id = account_id }
  IN { r \in rows :
         \A x \in rows : \/ x.year < r.year
                         \/ x.year = r.year /\ x.month <= r.month }

\* C7: get_current_total_balance() is the sum over the accounts that have a
\* snapshot of the ending_balance of the account's snapshot with the
\* lexicographically greatest (year, month); 0 for an empty store.
C7_CurrentTotalIsLatest ==
  get_current_total_balance =
    Sum(UNION { LatestOf(a) : a \in { r.account_id : r \in snapshots } },
        "ending_balance")

\* C8: for every (year, month) the three per-month totals are the sums of
\* ending_balance, total_expense and total_income over exactly the snapshots
\* of that year and month, and 0 when there is none.
C8_MonthlySums ==
  \A p \in QueryPeriods :
     LET rows == { r \in snapshots : r.year = p[1] /\ r.month = p[2] }
     IN /\ get_total_balance_for_month(p[1], p[2]) = Sum(rows, "ending_balance")
        /\ get_total_expenses_for_month(p[1], p[2]) = Sum(rows, "total_expense")
        /\ get_total_income_for_month(p[1], p[2]) = Sum(rows, "total_income")
        /\ rows = {} => get_total_balance_for_month(p[1], p[2]) = 0

\* two accounts have a snapshot in one month and the month's balance is the
\* sum of both, while December 2025 has no snapshot and totals 0
C8_Witness ==
  /\ \E r1, r2 \in snapshots :
        /\ r1.account_id # r2.account_id
        /\ r1.year = r2.year /\ r1.month = r2.month
        /\ get_total_balance_for_month(r1.year, r1.month)
             = r1.ending_balance + r2.ending_balance
        /\ r1.ending_balance > 0 /\ r2.ending_balance > 0
  /\ get_total_balance_for_month(2025, 12) = 0

\* everything the snapshot-based balance queries return
BalanceQueries ==
  << get_current_total_balance,
     [p \in QueryPeriods |->
        << get_total_balance_for_month(p[1], p[2]),
           get_total_expenses_for_month(p[1], p[2]),
           get_total_income_for_month(p[1], p[2]),
           get_monthly_totals(p[1], p[2]),
           get_net_worth(p[1], p[2]),
           get_month_over_month_delta(p[1], p[2]) >>],
     [a \in {None} \cup { Some(i) : i \in AccountIds } |->
        [n \in 1..MaxSnapshots |-> get_balance_trend(a, n)]] >>

\* C9: a step that adds or deletes a transaction changes the result of none
\* of the snapshot-based balance queries.
C9_TransactionsDoNotAffectBalances ==
  [][transactions' # transactions => BalanceQueries' = BalanceQueries]_vars

\* a transaction was added and deleted again while January 2026 had a snapshot
C9_Witness ==
  /\ last = "True"
  /\ transactions = {}
  /\ get_net_worth(2026, 1) > 0

\* C10: the balance get_balance reports is read from the snapshots, so a step
\* that adds or deletes a transaction never changes it.
C10_BalanceIgnoresTransactions ==
  [][transactions' # transactions => get_balance' = get_balance]_vars

\* C11: a successful update_snapshot changes exactly the supplied fields of
\* the one matching row, a supplied 0 included; the row's id, account_id, year
\* and month, its unsupplied fields, every other snapshot and the number of
\* snapshots stay as they were.
SnapshotFields == {"starting_balance", "ending_balance", "total_income", "total_expense"}

C11_UpdateChangesSuppliedFields ==
  [][\A a \in UpdateArgs :
       (update_snapshot(a) /\ \E r \in snapshots : Key(r) = Key(a))
       => /\ last' = "ok"
          /\ Cardinality(snapshots') = Cardinality(snapshots)
          /\ \A r \in snapshots : Key(r) # Key(a) => r \in snapshots'
          /\ \A r \in snapshots : Key(r) = Key(a) =>
                \E u \in snapshots' :
                  /\ u.id = r.id
                  /\ Key(u) = Key(r)
                  /\ \A f \in SnapshotFields :
                        u[f] = IF a[f] = None THEN r[f] ELSE Value(a[f])]_vars

\* an update that supplied ending_balance 0 and total_income 3500 has run on a
\* row that keeps its other two fields, next to a second, untouched snapshot
C11_Witness ==
  /\ last = "ok"
  /\ Cardinality(snapshots) = 2
  /\ \E r \in snapshots : /\ Key(r) = <<1, 2026, 1>>
                          /\ r.ending_balance = 0
                          /\ r.total_income = 3500
                          /\ r.starting_balance = 2500
                          /\ r.total_expense = 2800

\* C12: update_snapshot and get_snapshot on a key that has no snapshot, and
\* get_account on an id that has no account, return None without raising and
\* leave the store as it was; update_snapshot never creates the missing row.
C12_AbsentIsNone ==
  [][/\ \A a \in UpdateArgs :
          (update_snapshot(a) /\ ~ \E r \in snapshots : Key(r) = Key(a))
          => (last' = "None" /\ UNCHANGED store)
     /\ \A a \in UpdateArgs :
          (get_snapshot(a.account_id, a.year, a.month)
             /\ ~ \E r \in snapshots : Key(r) = Key(a))
          => (last' = "None" /\ UNCHANGED store)
     /\ \A id \in LookupAccountIds :
          (get_account(id) /\ id \notin accounts)
          => (last' = "None" /\ UNCHANGED store)]_vars

\* a lookup has answered None in a store that holds another snapshot but not
\* the January 2026 one of account 1
C12_Witness ==
  /\ last = "None"
  /\ snapshots # {}
  /\ ~ \E r \in snapshots : Key(r) = <<1, 2026, 1>>

\* C13: every aggregate method returns its documented zero / empty default
\* and never raises to the caller when the storage layer fails during the
\* query.
C13_AggregatesDegrade ==
  [][/\ \A m \in SnapshotServiceAggregates :
          snapshot_service_aggregate(m, TRUE) => last' = "default"
     /\ \A m \in AggregationServiceAggregates, p \in ApiQueryPeriods :
          aggregation_service_aggregate(m, p[1], p[2], TRUE) => last' = "default"]_vars

\* C14: every call of an aggregate query, whether it succeeds, degrades to
\* its default or fails, leaves the accounts, snapshots, transactions and
\* categories exactly as they were.
C14_AggregatesReadOnly ==
  [][\A fails \in BOOLEAN :
       (\/ \E m \in SnapshotServiceAggregates : snapshot_service_aggregate(m, fails)
        \/ \E m \in AggregationServiceAggregates, p \in ApiQueryPeriods :
             aggregation_service_aggregate(m, p[1], p[2], fails))
       => /\ accounts' = accounts
          /\ snapshots' = snapshots
          /\ transactions' = transactions
          /\ categories' = categories]_vars

\* an aggregate has degraded to its default over a store that holds
\* snapshots, transactions and a category
C14_Witness ==
  /\ last = "default"
  /\ snapshots # {}
  /\ transactions # {}
  /\ categories # {}

\* C15: two add_transaction calls of FinanceMCPDatabase that name the same
\* unknown category both succeed and return their transaction, and afterwards
\* exactly one category of that name exists.
C15_AddsSucceedWithOneCategory ==
  [][\A a \in McpTransactionArgs :
       FinanceMCPDatabase_add_transaction(a)
       => /\ last' = "ok"
          /\ Cardinality({ c \in categories' : c.name = a.category }) = 1]_vars

\* the sum of one column over the snapshots of a period
ColumnOfPeriod(year, month, column) ==
  Sum({ r \in snapshots : r.year = year /\ r.month = month }, column)

\* C16: for every (year, month) and every store, a month without snapshots
\* and the zero default returned on failure included, the result of
\* get_monthly_totals has net_savings = total_income - total_expense, the two
\* totals being the sums over the snapshots of that month.
C16_NetSavingsIdentity ==
  \A p \in ApiQueryPeriods, fails \in BOOLEAN :
    LET totals == get_monthly_totals_or_default(p[1], p[2], fails)
    IN /\ totals.net_savings = totals.total_income - totals.total_expense
       /\ ~ fails => /\ totals.total_income = ColumnOfPeriod(p[1], p[2], "total_income")
                     /\ totals.total_expense = ColumnOfPeriod(p[1], p[2], "total_expense")

\* the totals were asked over both December 2025 snapshots: income 3000,
\* expense 3300, net savings -300
C16_Witness ==
  /\ last = "ok"
  /\ Cardinality({ r \in snapshots : r.year = 2025 /\ r.month = 12 }) = 2
  /\ get_monthly_totals_or_default(2025, 12, FALSE) =
       [total_income |-> 3000, total_expense |-> 3300, net_savings |-> -300]

\* the period get_month_over_month_delta is to compare (year, month) with
PreviousPeriod(year, month) ==
  IF month = 1 THEN <<year - 1, 12>> ELSE <<year, month - 1>>

\* C17: get_month_over_month_delta compares (year, month) with (year,
\* month - 1), and January with December of the year before; each delta is
\* the current period's value minus the previous period's.
C17_DeltaAgainstPreviousPeriod ==
  \A p \in ApiQueryPeriods :
    LET q == PreviousPeriod(p[1], p[2])
        delta == get_month_over_month_delta(p[1], p[2])
    IN /\ delta.previous_year = q[1]
       /\ delta.previous_month = q[2]
       /\ delta.income_delta = ColumnOfPeriod(p[1], p[2], "total_income")
                               - ColumnOfPeriod(q[1], q[2], "total_income")
       /\ delta.expense_delta = ColumnOfPeriod(p[1], p[2], "total_expense")
                                - ColumnOfPeriod(q[1], q[2], "total_expense")
       /\ delta.net_worth_delta = ColumnOfPeriod(p[1], p[2], "ending_balance")
                                  - ColumnOfPeriod(q[1], q[2], "ending_balance")

\* with snapshots in December 2025 only, the deltas of January 2026 are the
\* negated December totals
C17_Witness ==
  /\ last = "ok"
  /\ Cardinality(snapshots) = 2
  /\ \A r \in snapshots : r.year = 2025 /\ r.month = 12
  /\ get_month_over_month_delta(2026, 1).income_delta = -3000
  /\ get_month_over_month_delta(2026, 1).expense_delta = -3300
  /\ get_month_over_month_delta(2026, 1).net_worth_delta = -2200

\* C18: each percentage change of get_month_over_month_delta is
\* delta / previous * 100 when the previous value is greater than zero and 0
\* when it is zero or negative, whatever the delta; no divisor is zero.
C18_PercentChange ==
  \A p \in ApiQueryPeriods :
    LET q == PreviousPeriod(p[1], p[2])
        delta == get_month_over_month_delta(p[1], p[2])
        Holds(pct, change, column) ==
          LET previous == ColumnOfPeriod(q[1], q[2], column)
          IN /\ pct[2] # 0
             /\ previous > 0 => pct[1] * previous = change * 100 * pct[2]
             /\ previous <= 0 => pct[1] = 0
    IN /\ Holds(delta.income_pct_change, delta.income_delta, "total_income")
       /\ Holds(delta.expense_pct_change, delta.expense_delta, "total_expense")
       /\ Holds(delta.net_worth_pct_change, delta.net_worth_delta, "ending_balance")

\* February 2026 against a January that holds only the credit card: the
\* previous net worth is negative, the previous income zero, the deltas are
\* not zero, and the previous expense is positive
C18_Witness ==
  /\ last = "ok"
  /\ ColumnOfPeriod(2026, 1, "ending_balance") < 0
  /\ ColumnOfPeriod(2026, 1, "total_income") = 0
  /\ get_month_over_month_delta(2026, 2).net_worth_delta = 3400
  /\ get_month_over_month_delta(2026, 2).net_worth_pct_change = <<0, 1>>
  /\ get_month_over_month_delta(2026, 2).income_delta = 3500
  /\ get_month_over_month_delta(2026, 2).income_pct_change = <<0, 1>>
  /\ get_month_over_month_delta(2026, 2).expense_pct_change = <<270000, 700>>

\* the thresholds detect_anomalies is asked with: the default 1.5, and 1
Thresholds == {<<3, 2>>, <<1, 1>>}

\* the transactions of a category dated in the 180 days before the first day
\* of (year, month)
PrecedingWindow(category, year, month) ==
  { t \in transactions :
      /\ t.category = category
      /\ ToOrdinal(t.date) < ToOrdinal(<<year, month, 1>>)
      /\ ToOrdinal(<<year, month, 1>>) - ToOrdinal(t.date) <= 180 }

\* C19: every entry detect_anomalies returns is for a category whose total of
\* the current month is negative, that has transactions in the preceding
\* window, and whose |current| exceeds threshold * |average of the window's
\* monthly totals|; a category without transactions in the window is never
\* flagged.
C19_AnomaliesAreJustified ==
  \A p \in ApiQueryPeriods, threshold \in Thresholds :
    \A listed \in detect_anomalies(p[1], p[2], threshold) :
      \A i \in DOMAIN listed :
        LET category == listed[i].category
            current == Sum({ t \in transactions : /\ t.category = category
                                                  /\ t.date[1] = p[1]
                                                  /\ t.date[2] = p[2] }, "amount")
            window == PrecedingWindow(category, p[1], p[2])
            months == { <<t.date[1], t.date[2]>> : t \in window }
        IN /\ current < 0
           /\ listed[i].current_amount = current
           /\ window # {}
           /\ Abs(current) * Cardinality(months) * threshold[2]
                > Abs(Sum(window, "amount")) * threshold[1]

\* anomalies were asked for January 2026, where Transportation has spent 120
\* and has no transaction in the preceding window (the June one is too old):
\* nothing is flagged
C19_Witness ==
  /\ last = "default"
  /\ Sum({ t \in transactions : t.category = "Transportation" /\ t.date[1] = 2026 },
         "amount") = -120
  /\ \E t \in transactions : t.date = <<2025, 6, 8>>
  /\ PrecedingWindow("Transportation", 2026, 1) = {}
  /\ detect_anomalies(2026, 1, <<3, 2>>) = {<<>>}

\* the bounds list_snapshots_for_account is asked with: omitted, or a period
RangeBounds == {None} \cup { Some(p) : p \in ApiQueryPeriods }

YearOf(bound) == IF bound = None THEN None ELSE Some(Value(bound)[1])

MonthOf(bound) == IF bound = None THEN None ELSE Some(Value(bound)[2])

\* (year, month) of a row is lexicographically at or after the period p
AtOrAfter(r, p) == r.year > p[1] \/ (r.year = p[1] /\ r.month >= p[2])

AtOrBefore(r, p) == r.year < p[1] \/ (r.year = p[1] /\ r.month <= p[2])

\* C20: list_snapshots_for_account returns exactly the snapshots of the
\* account whose (year, month) lies between the start and the end bound, both
\* inclusive and lexicographic, an omitted bound not restricting its side, in
\* descending (year, month) order and without a snapshot of another account.
C20_RangeListing ==
  \A account_id \in AccountIds, start \in RangeBounds, end \in RangeBounds :
    LET expected == { r \in snapshots :
                        /\ r.account_id = account_id
                        /\ start # None => AtOrAfter(r, Value(start))
                        /\ end # None => AtOrBefore(r, Value(end)) }
        listings == list_snapshots_for_account(account_id, YearOf(start), MonthOf(start),
                                               YearOf(end), MonthOf(end))
    IN /\ listings # {}
       /\ \A q \in listings :
            /\ { q[i] : i \in DOMAIN q } = expected
            /\ Len(q) = Cardinality(expected)
            /\ \A i \in 1..(Len(q) - 1) : /\ AtOrAfter(q[i], <<q[i + 1].year, q[i + 1].month>>)
                                          /\ Key(q[i]) # Key(q[i + 1])

\* all five snapshots are stored: account 1 from December 2025 to January
\* 2026 lists January then December, leaving out February and account 2
C20_Witness ==
  /\ last = "listed"
  /\ Cardinality(snapshots) = 5
  /\ \A q \in list_snapshots_for_account(1, Some(2025), Some(12), Some(2026), Some(1)) :
       /\ Len(q) = 2
       /\ Key(q[1]) = <<1, 2026, 1>>
       /\ Key(q[2]) = <<1, 2025, 12>>
  /\ \A q \in list_snapshots_for_account(1, Some(2026), Some(1), None, None) :
       /\ Len(q) = 2
       /\ Key(q[1]) = <<1, 2026, 2>>

\* the limits get_balance_trend is asked with
TrendSizes == {0, 1, 2, 6, 12}

\* the period of row r is no later than the period of row u
NoLaterThan(r, u) == r.year < u.year \/ (r.year = u.year /\ r.month <= u.month)

\* C21: get_balance_trend(account_id, num_months) returns min(num_months,
\* number of eligible snapshots) snapshots, eligible being all snapshots or
\* those of the given account, ordered by (year, month) descending, and every
\* eligible snapshot left out is no later than every snapshot returned.
C21_TrendIsMostRecent ==
  \A account_id \in {None} \cup { Some(i) : i \in AccountIds }, n \in TrendSizes :
    LET eligible == { r \in snapshots :
                        account_id # None => r.account_id = Value(account_id) }
        size == IF n < Cardinality(eligible) THEN n ELSE Cardinality(eligible)
        trends == get_balance_trend(account_id, n)
    IN /\ trends # {}
       /\ \A q \in trends :
            LET returned == { q[i] : i \in DOMAIN q }
            IN /\ Len(q) = size
               /\ Cardinality(returned) = size
               /\ returned \subseteq eligible
               /\ \A i \in 1..(Len(q) - 1) : NoLaterThan(q[i + 1], q[i])
               /\ \A r \in eligible \ returned : \A u \in returned : NoLaterThan(r, u)

\* the trend was asked over all five snapshots: account 1 with limit 2 gets
\* February and January 2026 and leaves December 2025 out
C21_Witness ==
  /\ last = "ok"
  /\ Cardinality(snapshots) = 5
  /\ \A q \in get_balance_trend(Some(1), 2) :
       /\ Len(q) = 2
       /\ Key(q[1]) = <<1, 2026, 2>>
       /\ Key(q[2]) = <<1, 2026, 1>>

\* the two snapshots of the end-to-end scenario, without their ids
ScenarioSnapshots ==
  { [account_id |-> 1, year |-> 2025, month |-> 12, starting_balance |-> 2000,
     ending_balance |-> 2500, total_income |-> 3000, total_expense |-> 2500],
    [account_id |-> 1, year |-> 2026, month |-> 1, starting_balance |-> 2500,
     ending_balance |-> 3200, total_income |-> 3500, total_expense |-> 2800] }

WithoutId(r) ==
  [account_id |-> r.account_id, year |-> r.year, month |-> r.month,
   starting_balance |-> r.starting_balance, ending_balance |-> r.ending_balance,
   total_income |-> r.total_income, total_expense |-> r.total_expense]

ScenarioReached ==
  /\ 1 \in accounts
  /\ Cardinality(snapshots) = 2
  /\ { WithoutId(r) : r \in snapshots } = ScenarioSnapshots

\* C22: from an empty store, after account A and its December 2025 and
\* January 2026 snapshots are created, get_current_total_balance is 3200,
\* get_total_balance_for_month(2025, 12) is 2500,
\* get_total_expenses_for_month(2026, 1) is 2800 and get_balance_trend(A, 6)
\* returns both snapshots, January 2026 first.
C22_EndToEndScenario ==
  ScenarioReached =>
    /\ get_current_total_balance = 3200
    /\ get_total_balance_for_month(2025, 12) = 2500
    /\ get_total_expenses_for_month(2026, 1) = 2800
    /\ \E q \in get_balance_trend(Some(1), 6) : get_balance_trend(Some(1), 6) = {q}
    /\ \A q \in get_balance_trend(Some(1), 6) :
         /\ Len(q) = 2
         /\ WithoutId(q[1]) \in ScenarioSnapshots /\ Key(q[1]) = <<1, 2026, 1>>
         /\ WithoutId(q[2]) \in ScenarioSnapshots /\ Key(q[2]) = <<1, 2025, 12>>

\* the second create_snapshot of the scenario has just returned
C22_Witness ==
  /\ ScenarioReached
  /\ last = "ok"
  /\ { r.id : r \in snapshots } = {1, 2}
  /\ transactions = {}

\* the years get_yearly_summary is asked for
SummaryYears == {2024, 2025, 2026}

\* C23: get_yearly_summary(year) returns 12 monthly entries, months 1 to 12 in
\* ascending order, each with that month's get_monthly_totals and
\* get_net_worth values; total_income and total_expense are the sums of the
\* 12 entries and net_savings is total_income minus total_expense.
C23_YearlySummary ==
  \A year \in SummaryYears :
    /\ get_yearly_summary(year) # {}
    /\ \A summary \in get_yearly_summary(year) :
         /\ Len(summary.monthly_data) = 12
         /\ \A m \in 1..12 :
              LET entry == summary.monthly_data[m]
              IN /\ entry.month = m
                 /\ entry.income = get_monthly_totals(year, m).total_income
                 /\ entry.expense = get_monthly_totals(year, m).total_expense
                 /\ entry.net_savings = get_monthly_totals(year, m).net_savings
                 /\ entry.net_worth = get_net_worth(year, m)
                 /\ entry.income = ColumnOfPeriod(year, m, "total_income")
                 /\ entry.expense = ColumnOfPeriod(year, m, "total_expense")
         /\ summary.total_income =
              Sum({ r \in snapshots : r.year = year /\ r.month \in 1..12 }, "total_income")
         /\ summary.total_expense =
              Sum({ r \in snapshots : r.year = year /\ r.month \in 1..12 }, "total_expense")
         /\ summary.net_savings = summary.total_income - summary.total_expense

\* the summary of 2026 was asked over all five snapshots: income 7000,
\* expense 6900, net savings 100
C23_Witness ==
  /\ last = "ok"
  /\ Cardinality(snapshots) = 5
  /\ \A summary \in get_yearly_summary(2026) :
       /\ summary.total_income = 7000
       /\ summary.total_expense = 6900
       /\ summary.net_savings = 100
       /\ summary.monthly_data[2].net_worth = 3300

\* the number of transactions the instance get_mcp_server() hands out holds
StoredCount ==
  IF mcp_server.class = "FinanceMCP" THEN Len(mcp_server.transactions)
  ELSE Cardinality(transactions)

\* the answer to an upload of the file the request before it uploaded
SecondUpload == response.call = "upload_statement" /\ response.repeated

SecondUploadAddsNothing ==
  /\ response.outcome = "HTTP 200"
  /\ response.returned.transactions_added = 0
  /\ response.returned.transactions_skipped = Len(response.args)
  /\ StoredCount = response.stored_before

\* C24: uploading the statement that was just uploaded adds 0 transactions,
\* reports every parsed transaction as skipped and leaves the number of
\* stored transactions as the first upload left it (the storage being
\* reachable).
C24_SecondUploadIsIdempotent ==
  SecondUpload /\ ~StorageFails => SecondUploadAddsNothing

\* the same, for the in-memory FinanceMCP only
C24_SecondUploadIsIdempotentInMemory ==
  SecondUpload /\ mcp_server.class = "FinanceMCP" => SecondUploadAddsNothing

\* a second upload of the three rows of tests/test_integration.py answered
\* by the in-memory FinanceMCP
C24_InMemoryReached ==
  /\ SecondUpload
  /\ mcp_server.class = "FinanceMCP"
  /\ Len(response.args) = 3

Ids(q) == { q[i].id : i \in DOMAIN q }

DistinctIds(q) == \A i, j \in DOMAIN q : q[i].id = q[j].id => i = j

\* the dictionaries the step appended, given that it appended n of them
Appended(n) ==
  SubSeq(mcp_server'.transactions, Len(mcp_server.transactions) + 1,
         Len(mcp_server.transactions) + n)

\* an add of n transactions appends n entries with the ids next_id,
\* next_id + 1, ... and returns them
AddsInOrder(n) ==
  /\ Len(mcp_server'.transactions) = Len(mcp_server.transactions) + n
  /\ SubSeq(mcp_server'.transactions, 1, Len(mcp_server.transactions)) = mcp_server.transactions
  /\ \A i \in 1..n : Appended(n)[i].id = mcp_server.next_id + i - 1
  /\ mcp_server.transactions = <<>> /\ mcp_server.next_id = 1 =>
       [i \in 1..n |-> Appended(n)[i].id] = [i \in 1..n |-> i]

\* what a step of an instance keeps; reset_mcp_server ends the instance
C25_Step ==
  mcp_server.class = "FinanceMCP" /\ response'.call # "reset_mcp_server" =>
    /\ DistinctIds(mcp_server.transactions) /\ DistinctIds(mcp_server'.transactions)
    /\ \A id \in Ids(mcp_server.transactions) : id < mcp_server.next_id
    /\ mcp_server'.next_id >= mcp_server.next_id
    /\ \A id \in Ids(mcp_server'.transactions) \ Ids(mcp_server.transactions) :
         /\ id >= mcp_server.next_id
         /\ id < mcp_server'.next_id
         /\ \A old \in Ids(mcp_server.transactions) : id > old
    /\ response'.call = "add_transaction" =>
         /\ AddsInOrder(1)
         /\ response'.returned = Appended(1)[1]
    /\ response'.call = "add_transactions_bulk" =>
         /\ AddsInOrder(Len(response'.args))
         /\ response'.returned = Appended(Len(response'.args))
         /\ Len(response'.returned) = Len(response'.args)

\* C25: in the in-memory FinanceMCP the stored ids stay pairwise distinct and
\* below next_id, next_id never decreases, every added entry gets an id at
\* or above the next_id of before the step (so above every id present or
\* handed out earlier, deleted or not), an add of n entries appends and
\* returns n entries with consecutive ids in insertion order, and from an
\* empty fresh instance these are 1, 2, ...
C25_IdsNeverReused == [][C25_Step]_vars

\* an entry added to an instance that started empty, after the entry with
\* id 1 was deleted: it is alone in the list and its id is 2
C25_Witness ==
  /\ mcp_server.class = "FinanceMCP"
  /\ response.call = "add_transaction"
  /\ Len(mcp_server.transactions) = 1
  /\ mcp_server.transactions[1].id = 2
  /\ response.returned.id = 2

\* the dictionaries of the stored transactions
StoredDicts ==
  IF mcp_server.class = "FinanceMCP" THEN Range(mcp_server.transactions)
  ELSE { to_dict(t) : t \in transactions }

\* the stored transactions a listing has to return; a filter that is None or
\* the empty string counts as omitted
Matching(category, start_date, end_date) ==
  { t \in StoredDicts :
      /\ Given(category) => lower(t.category) = lower(Value(category))
      /\ GivenDate(start_date) => Value(start_date) <= t.date
      /\ GivenDate(end_date) => t.date <= Value(end_date) }

\* C26: list_transactions returns exactly the stored transactions whose
\* category equals the given one ignoring case and whose date lies between
\* start_date and end_date, an omitted filter restricting nothing (when it
\* returns).
C26_ListIsExactFilter ==
  response.call = "list_transactions" /\ response.outcome = "ok" =>
    /\ Range(response.returned) = Matching(response.args[1], response.args[2], response.args[3])
    /\ Len(response.returned) = Cardinality(Range(response.returned))

\* the same, for the in-memory FinanceMCP only
C26_ListIsExactFilterInMemory ==
  mcp_server.class = "FinanceMCP" => C26_ListIsExactFilter

\* C28: FinanceMCPDatabase.add_transactions_bulk called with n transactions
\* returns n records and leaves n more rows in table transactions (the
\* tables being there).
C28_BulkPersistsAll ==
  response.call = "add_transactions_bulk" /\ mcp_server.class = "FinanceMCPDatabase" /\ tables =>
    /\ response.outcome = "ok"
    /\ Len(response.returned) = Len(response.args)
    /\ Cardinality(transactions) >= Len(response.args)

\* C27: detect_anomalies lists every category of the asked month whose total
\* is negative, that has a non-zero average of monthly totals over the
\* preceding window, and whose |current| exceeds threshold * |average|, with
\* current_amount the total, average_amount -|average| and is_high true.
C27_AnomaliesAreComplete ==
  \A p \in ApiQueryPeriods, threshold \in Thresholds :
    \A category \in { t.category : t \in { u \in transactions : /\ u.date[1] = p[1]
                                                                /\ u.date[2] = p[2] } } :
      LET current == Sum({ t \in transactions : /\ t.category = category
                                                /\ t.date[1] = p[1]
                                                /\ t.date[2] = p[2] }, "amount")
          window == PrecedingWindow(category, p[1], p[2])
          months == { <<t.date[1], t.date[2]>> : t \in window }
      IN /\ current < 0
         /\ window # {}
         /\ Sum(window, "amount") # 0
         /\ Abs(current) * Cardinality(months) * threshold[2]
              > Abs(Sum(window, "amount")) * threshold[1]
         => \A listed \in detect_anomalies(p[1], p[2], threshold) :
              \E i \in DOMAIN listed :
                /\ listed[i].category = category
                /\ listed[i].current_amount = current
                /\ listed[i].average_amount = << -Abs(Sum(window, "amount")), Cardinality(months) >>
                /\ listed[i].is_high

\* C30: in every store state and for every (year, month), get_net_worth of
\* AggregationService equals get_total_balance_for_month of SnapshotService,
\* and total_income and total_expense of get_monthly_totals equal
\* get_total_income_for_month and get_total_expenses_for_month.
C30_MonthlySumsAgree ==
  \A p \in ApiQueryPeriods :
    /\ get_net_worth(p[1], p[2]) = get_total_balance_for_month(p[1], p[2])
    /\ get_monthly_totals(p[1], p[2]).total_income = get_total_income_for_month(p[1], p[2])
    /\ get_monthly_totals(p[1], p[2]).total_expense = get_total_expenses_for_month(p[1], p[2])

\* the sums were asked while December 2025 holds the snapshots of both
\* accounts, the credit card's with a negative balance, and January 2025
\* holds none
C30_Witness ==
  /\ last = "ok"
  /\ Cardinality(ForMonth(2025, 12)) = 2
  /\ get_net_worth(2025, 12) = 2200
  /\ get_total_income_for_month(2025, 12) = 3000
  /\ get_total_expenses_for_month(2025, 12) = 3300
  /\ ForMonth(2025, 1) = {}

\* C29: a failed create_snapshot leaves its session usable: no later call on
\* it is refused because of the failure, whether the failure was the
\* ValueError of the existence check or the IntegrityError of the commit,
\* and the rejected row is not left waiting for a later commit.
C29_FailedCreateIsRecoverable ==
  \A s \in Sessions :
     /\ result[s].outcome # "PendingRollbackError"
     /\ result[s].outcome \in {"ValueError", "IntegrityError"} /\ pc[s] \in {"idle", "inactive"}
          => pending[s] = None

\* the part that holds: after the ValueError of the existence check the
\* session is usable, and no failed create leaves a row to be committed
C29_ValueErrorLeavesSessionUsable ==
  \A s \in Sessions :
     /\ result[s].outcome = "ValueError" => pc[s] # "inactive"
     /\ result[s].outcome \in {"ValueError", "IntegrityError"} /\ pc[s] \in {"idle", "inactive"}
          => pending[s] = None

====
